---- MODULE Spec2Model ----
(***************************************************************************)
(* Audio-reactive particle visualizer (portfolio-visual).                  *)
(*                                                                         *)
(* The module models the React components AudioVisualizerWithObject        *)
(* (variant "Obj", the head variant), AudioVisualizer (variant "AV", five  *)
(* bands with envelopes) and AudioVisualizer2 (variant "AV2", three        *)
(* bands): the play/ended lifecycle around the async handlePlay, the       *)
(* requestAnimationFrame callback animate, and the state animate keeps.    *)
(*                                                                         *)
(* Numbers.  The code computes in IEEE doubles; the model computes in      *)
(* fixed point.  Band levels, pans, radii, shakes and rotations are in     *)
(* thousandths (One == 1000 stands for 1.0), chromatic strengths in        *)
(* millionths, times in milliseconds.  Math.sin(...) of a running phase    *)
(* and Math.random() are inputs of a frame, drawn from Draws; the phases   *)
(* themselves (noiseOffset, shakePhase, ...) are read only through         *)
(* Math.sin and are not state of the model.                                *)
(***************************************************************************)
EXTENDS Integers, Naturals, Sequences, FiniteSets, TLC

\* ---------------------------------------------------------------- bounds
\* Number of handlePlay invocations that may be in flight at once.
MaxCalls == 1
\* Number of requestAnimationFrame callbacks of one behaviour.
MaxFrames == 2
\* Path points; the code uses 256 (AudioVisualizerWithObj.tsx:320).
PathLength == 8
\* Shooting-star pool slots; the code uses 2000.
MaxActiveStars == 1

\* Significant bits a number keeps after each arithmetic operation (53 in a
\* JavaScript Number, 24 in a shader float).
SignificandBits == 4

\* Longest playback time (ms) given to a function on its own.
MaxTime == 190
\* Sample rates scaled with PathLength so that the frequency bands keep the
\* code's layout on BinCount = 4 * PathLength bins (the code: 44100 on 1024).
SampleRateObj == 12400
SampleRateAV == 3800

\* ------------------------------------------------------------- arithmetic
One == 1000

Max(a, b) == IF a >= b THEN a ELSE b

Min(a, b) == IF a <= b THEN a ELSE b

\* Math.min(1.0, Math.max(0.0, v)) on thousandths
Clamp01(v) == Min(One, Max(0, v))

\* a * b on thousandths, rounding toward zero
Mul(a, b) == IF a * b >= 0 THEN (a * b) \div One ELSE 0 - ((0 - (a * b)) \div One)

\* a / b rounding toward zero, b > 0
Quot(a, b) == IF a >= 0 THEN a \div b ELSE 0 - ((0 - a) \div b)

Calls == 1 .. MaxCalls

Points == 0 .. (PathLength - 1)

Slots == 1 .. MaxActiveStars

Variants == {"Obj", "AV", "AV2"}

\* What Math.random() (rnd, in [0, 1)) and Math.sin(phase) (sn, in [-1, 1])
\* return during one frame.  Every call of a frame reads the frame's draw;
\* the two draws are the extremes of both ranges.
Draws == {[rnd |-> 0, sn |-> One], [rnd |-> 999, sn |-> 0 - One]}

\* Milliseconds between two animation frames (25 Hz).
FrameMs == 40

\* ---------------------------------------------------- FrequencyBandAnalyzer
\* new AudioAnalyzer(pathLength * 4, 0.85)
BinCount == PathLength * 4

\* const cap = data.length * 0.5
Cap == BinCount \div 2

Bins == 0 .. (BinCount - 1)

\* Math.floor(hz / (sampleRate / (binCount * 2)))
BandEnd(hz, sampleRate) == (hz * BinCount * 2) \div sampleRate

\* Band boundaries of the head variant: 250, 400, 1500, 3000 Hz.
ObjEnds == [subBass |-> BandEnd(250, SampleRateObj),
            lowBass |-> BandEnd(400, SampleRateObj),
            lowMid |-> BandEnd(1500, SampleRateObj),
            highMid |-> BandEnd(3000, SampleRateObj)]

\* Band boundaries of AudioVisualizer: 60, 250, 500, 2000 Hz.  At a bin
\* width that gives the 60 Hz band a bin, 2000 Hz lies past the model's Cap
\* bins (in the code it is bin 92 of 512); the boundary is held at three
\* quarters of Cap so that the two upper bands keep their bins.
AVEnds == [subBass |-> BandEnd(60, SampleRateAV),
           lowBass |-> BandEnd(250, SampleRateAV),
           lowMid |-> BandEnd(500, SampleRateAV),
           highMid |-> Min(BandEnd(2000, SampleRateAV), (3 * Cap) \div 4)]

\* Band boundaries of AudioVisualizer2: bass up to 250 Hz, mid up to 500 Hz.
AV2Ends == [bass |-> BandEnd(250, SampleRateAV), mid |-> BandEnd(500, SampleRateAV)]

\* Sum of data[i] for lo <= i < hi (the for loops over a band).
RECURSIVE BandTotal(_, _, _)
BandTotal(data, lo, hi) ==
    IF lo >= hi THEN 0 ELSE data[lo] + BandTotal(data, lo + 1, hi)

\* The average with the count as it is: 0 / 0 is not a number (-1 here).
BandAvgNoFloor(data, lo, hi, intensity) ==
    IF hi <= lo THEN 0 - 1
    ELSE (BandTotal(data, lo, hi) * intensity) \div ((hi - lo) * 255)

\* (total / Math.max(1, count) / 255) * intensity, in thousandths.
BandAvg(data, lo, hi, intensity) ==
    (BandTotal(data, lo, hi) * intensity) \div (Max(1, hi - lo) * 255)

\* calculatePan(left, right): (right - left) / (left + right) when
\* left + right > 0.01, else 0.
calculatePan(left, right) ==
    IF left + right > 10 THEN Quot((right - left) * One, left + right) ELSE 0

\* ------------------------------------------------------- Catmull-Rom spline
\* 1.0 in the units of the spline's control values and weights (sixteenths).
FOne == 16

Abs(x) == IF x < 0 THEN 0 - x ELSE x

RECURSIVE BitLength(_)
BitLength(a) == IF a = 0 THEN 0 ELSE 1 + BitLength(a \div 2)

RECURSIVE Pow2(_)
Pow2(e) == IF e = 0 THEN 1 ELSE 2 * Pow2(e - 1)

\* The value an arithmetic operation stores for the exact result n: the
\* nearest number with SignificandBits significant bits, ties to even.
RoundNearestEven(n) ==
    LET a == Abs(n)
        e == BitLength(a) - SignificandBits
    IN IF e <= 0 THEN n
       ELSE LET q == a \div Pow2(e)
                r == a % Pow2(e)
                half == Pow2(e - 1)
                up == IF r > half \/ (r = half /\ q % 2 = 1) THEN 1 ELSE 0
            IN (IF n < 0 THEN 0 - 1 ELSE 1) * (q + up) * Pow2(e)

FAdd(a, b) == RoundNearestEven(a + b)

FSub(a, b) == RoundNearestEven(a - b)

FMul(a, b) == RoundNearestEven((a * b) \div FOne)

\* The cubic with the tangent terms of the wrong sign in the t2 coefficient.
CubicWrongTangent(p1, p2, v0, v1, t) ==
    LET t2 == FMul(t, t)
        t3 == FMul(FMul(t, t), t)
        a == FAdd(FAdd(FSub(FMul(2 * FOne, p1), FMul(2 * FOne, p2)), v0), v1)
        b == FAdd(FAdd(FAdd(FMul(0 - 3 * FOne, p1), FMul(3 * FOne, p2)),
                       FMul(2 * FOne, v0)), v1)
    IN FAdd(FAdd(FAdd(FMul(a, t3), FMul(b, t2)), FMul(v0, t)), p1)

\* (2.0 * p1 - 2.0 * p2 + v0 + v1) * t3 +
\* (-3.0 * p1 + 3.0 * p2 - 2.0 * v0 - v1) * t2 + v0 * t + p1,
\* evaluated left to right, every operation rounded.
Cubic(p1, p2, v0, v1, t) ==
    LET t2 == FMul(t, t)
        t3 == FMul(FMul(t, t), t)
        a == FAdd(FAdd(FSub(FMul(2 * FOne, p1), FMul(2 * FOne, p2)), v0), v1)
        b == FSub(FSub(FAdd(FMul(0 - 3 * FOne, p1), FMul(3 * FOne, p2)),
                       FMul(2 * FOne, v0)), v1)
    IN FAdd(FAdd(FAdd(FMul(a, t3), FMul(b, t2)), FMul(v0, t)), p1)

\* catmullRom(p0, p1, p2, p3, t): tangents (p2 - p0) * 0.5 and (p3 - p1) * 0.5
catmullRom(p0, p1, p2, p3, t) ==
    Cubic(p1, p2, FMul(FSub(p2, p0), FOne \div 2), FMul(FSub(p3, p1), FOne \div 2), t)

\* catmullRomVec3(p0, p1, p2, p3, t, roundness): the same cubic on x, y and z
\* with tangents scaled by roundness.x and roundness.y
catmullRomVec3(p0, p1, p2, p3, t, roundness) ==
    [k \in 1 .. 3 |->
        Cubic(p1[k], p2[k], FMul(FSub(p2[k], p0[k]), roundness[1]),
              FMul(FSub(p3[k], p1[k]), roundness[2]), t)]

\* The vertex shader's lookup of a per-path-point array u at a particle's
\* progress: tPoint = tMax * tProgress, the four neighbours with clamped
\* indices, and the weight tPoint - floor(tPoint).
SplineAt(u, tProgress) ==
    LET tMax == (Len(u) - 1) * FOne
        tPoint == FMul(tMax, tProgress)
        tIndex == tPoint \div FOne
        tWeight == FSub(tPoint, tIndex * FOne)
        i0 == Max(0, tIndex - 1)
        i1 == tIndex
        i2 == Min(tIndex + 1, Len(u) - 1)
        i3 == Min(tIndex + 2, Len(u) - 1)
    IN catmullRom(u[i0 + 1], u[i1 + 1], u[i2 + 1], u[i3 + 1], tWeight)

\* ------------------------------------------------------------------ state
VARIABLES
    variant,          \* which component is mounted
    sceneRef,         \* sceneRef.current is set (TRUE) or null (FALSE)
    loadState,        \* the loadOBJ promise: "loading", "ready", "failed"
    analyzer,         \* sceneRef.current.analyzer and its AudioContext
    audio,            \* the <audio> element: paused, ended, currentTime (ms)
    isPlaying,        \* React state isPlaying
    isPlayingRef,     \* isPlayingRef.current
    showPlayButton,   \* React state showPlayButton
    debugInfo,        \* React state debugInfo (the status string)
    pc,               \* position of each handlePlay invocation
    now,              \* performance.now() in ms since mount
    ticks,            \* animation-frame callbacks run so far
    frameCount,       \* let frameCount of the useEffect closure
    anim,             \* animState.current
    controls,         \* the CameraController fields animate/handlePlay write
    shootingStars,    \* the shooting-star pool
    radiusArray,
    shakeArray,
    rotationArray,
    panArray,
    uniforms,         \* uRoundness, uParticleScale, light intensities, hue shift
    chroma,           \* uniforms of the chromatic-aberration shader
    frame,            \* locals of the last animate call, kept for inspection
    hist              \* observations over the run (history only)

arrayVars == <<radiusArray, shakeArray, rotationArray, panArray>>

frameVars == <<now, ticks, frameCount, anim, controls, shootingStars,
               radiusArray, shakeArray, rotationArray, panArray, uniforms, chroma, frame>>

vars == <<variant, sceneRef, loadState, analyzer, audio, isPlaying, isPlayingRef,
          showPlayButton, debugInfo, pc, now, ticks, frameCount, anim, controls,
          shootingStars, radiusArray, shakeArray, rotationArray, panArray, uniforms,
          chroma, frame, hist>>

\* Date.now() at mount, in ms; Date.now() is DateBase + now.
DateBase == 1000000

DateNow(t) == DateBase + t

\* ------------------------------------------------------------ AudioAnalyzer
\* sceneRef.current.analyzer === undefined
NoAnalyzer == [exists |-> FALSE, ctx |-> "none", source |-> FALSE, isConnected |-> FALSE]

\* new AudioAnalyzer(pathLength * 4, 0.85): the context starts in the state
\* the platform gives it; source = null, isConnected = false.
NewAnalyzer(ctxState) ==
    [exists |-> TRUE, ctx |-> ctxState, source |-> FALSE, isConnected |-> FALSE]

\* A guard that lets init build the graph on every call.
NeedsSourceAlways(a) == TRUE

\* if (!this.source && !this.isConnected)
NeedsSource(a) == ~a.source /\ ~a.isConnected

\* The part of AudioAnalyzer.init after the resume: connect the node graph
\* once.  createMediaElementSource is the call the platform can refuse
\* (srcOk = FALSE: it throws before this.source is assigned); the connect
\* calls join nodes of one context on valid ports and do not throw.
InitConnect(a, srcOk) ==
    IF NeedsSource(a)
    THEN IF srcOk THEN [a EXCEPT !.source = TRUE, !.isConnected = TRUE] ELSE a
    ELSE a

\* The history after init reached its guard on analyzer a: one more call of
\* createMediaElementSource if the guard let it through (counted up to 2).
SourceCalls(a, h) ==
    IF "srcCalls" \in DOMAIN h /\ NeedsSource(a)
    THEN [h EXCEPT !.srcCalls = Min(@ + 1, 2)]
    ELSE h

\* The history after new AudioAnalyzer(...) returned (counted up to 2).
AnalyzerCreated(h) ==
    IF "created" \in DOMAIN h THEN [h EXCEPT !.created = Min(@ + 1, 2)] ELSE h

\* init as it would be if it reported success without a connected graph.
InitAlwaysTrue(a, srcOk) == TRUE

\* The value init resolves to: true unless the try block threw.
InitSuccess(a, srcOk) == (a.source \/ a.isConnected) \/ srcOk

\* ---------------------------------------------------------------- handlePlay
\* What handlePlay does once init has resolved: report a failed init, or
\* seek to 0 and call play().  The second resume of handlePlay runs only if
\* the context is suspended again at this point.
AfterInit(c, a, success, h) ==
    IF ~success
    THEN /\ debugInfo' = "Failed to initialize audio"
         /\ pc' = [pc EXCEPT ![c] = "idle"]
         /\ audio' = audio
         /\ hist' = [h EXCEPT !.failures = 1]
    ELSE IF a.ctx = "suspended"
    THEN /\ debugInfo' = "Initializing audio..."
         /\ pc' = [pc EXCEPT ![c] = "resume"]
         /\ audio' = audio
         /\ hist' = h
    ELSE /\ debugInfo' = "Initializing audio..."
         /\ pc' = [pc EXCEPT ![c] = "play"]
         /\ audio' = [audio EXCEPT !.currentTime = 0, !.ended = FALSE]
         /\ hist' = h

\* The click on the play button: handlePlay up to its first real suspension.
\* Invocation numbers are handed out lowest free first.
\* ctorOk, ctxState and srcOk are the platform's answers to new AudioContext,
\* its initial state and createMediaElementSource.
HandlePlay(c, ctorOk, ctxState, srcOk) ==
    /\ pc[c] = "idle"
    /\ \A q \in 1 .. (c - 1) : pc[q] # "idle"
    /\ showPlayButton
    /\ UNCHANGED <<variant, sceneRef, loadState, isPlaying, isPlayingRef, showPlayButton>>
    /\ UNCHANGED frameVars
    /\ IF ~sceneRef
       THEN /\ hist' = [hist EXCEPT !.ignored = (loadState = "failed")]
            /\ UNCHANGED <<analyzer, audio, debugInfo, pc>>
       ELSE IF ~analyzer.exists /\ ~ctorOk
       THEN /\ debugInfo' = "Error"
            /\ hist' = [hist EXCEPT !.failures = 1]
            /\ UNCHANGED <<analyzer, audio, pc>>
       ELSE LET a0 == IF analyzer.exists THEN analyzer ELSE NewAnalyzer(ctxState)
                h0 == IF analyzer.exists THEN hist ELSE AnalyzerCreated(hist)
            IN IF a0.ctx = "suspended"
               THEN /\ analyzer' = a0
                    /\ debugInfo' = "Initializing audio..."
                    /\ pc' = [pc EXCEPT ![c] = "initResume"]
                    /\ hist' = h0
                    /\ audio' = audio
               ELSE /\ analyzer' = InitConnect(a0, srcOk)
                    /\ AfterInit(c, a0, InitSuccess(a0, srcOk), SourceCalls(a0, h0))

\* await this.context.resume() inside init resolves: the context runs, init
\* connects the graph and handlePlay continues.
InitResumeResolve(c, srcOk) ==
    /\ pc[c] = "initResume"
    /\ LET a0 == [analyzer EXCEPT !.ctx = "running"]
       IN /\ analyzer' = InitConnect(a0, srcOk)
          /\ AfterInit(c, a0, InitSuccess(a0, srcOk), SourceCalls(a0, hist))
    /\ UNCHANGED <<variant, sceneRef, loadState, isPlaying, isPlayingRef, showPlayButton>>
    /\ UNCHANGED frameVars

\* await this.context.resume() inside init rejects: init catches and
\* resolves to false.
InitResumeReject(c) ==
    /\ pc[c] = "initResume"
    /\ analyzer' = analyzer
    /\ AfterInit(c, analyzer, FALSE, hist)
    /\ UNCHANGED <<variant, sceneRef, loadState, isPlaying, isPlayingRef, showPlayButton>>
    /\ UNCHANGED frameVars

\* await audioRef.current.play() resolves: playback has started.
PlayResolve(c) ==
    /\ pc[c] = "play"
    /\ audio' = [audio EXCEPT !.paused = FALSE, !.ended = FALSE]
    /\ isPlaying' = TRUE
    /\ isPlayingRef' = TRUE
    /\ showPlayButton' = FALSE
    /\ debugInfo' = "Playing..."
    /\ controls' = [controls EXCEPT !.distance = 10000 * One,
                                    !.targetDistance = IF variant = "Obj" THEN 1500 * One
                                                       ELSE 1000 * One]
    /\ pc' = [pc EXCEPT ![c] = "idle"]
    /\ hist' = [hist EXCEPT !.playsResolved = TRUE]
    /\ UNCHANGED <<variant, sceneRef, loadState, analyzer>>
    /\ UNCHANGED <<now, ticks, frameCount, anim, shootingStars, radiusArray, shakeArray,
                   rotationArray, panArray, uniforms, chroma, frame>>

\* The catch block as it would be if it also hid the play button.
PlayRejectHidesButton(c) ==
    /\ pc[c] = "play"
    /\ debugInfo' = "Error"
    /\ showPlayButton' = FALSE
    /\ pc' = [pc EXCEPT ![c] = "idle"]
    /\ hist' = [hist EXCEPT !.failures = 1]
    /\ UNCHANGED <<variant, sceneRef, loadState, analyzer, audio, isPlaying, isPlayingRef>>
    /\ UNCHANGED frameVars

\* await audioRef.current.play() rejects: the catch block reports the error.
PlayReject(c) ==
    /\ pc[c] = "play"
    /\ debugInfo' = "Error"
    /\ pc' = [pc EXCEPT ![c] = "idle"]
    /\ hist' = [hist EXCEPT !.failures = 1]
    /\ UNCHANGED <<variant, sceneRef, loadState, analyzer, audio, isPlaying, isPlayingRef,
                   showPlayButton>>
    /\ UNCHANGED frameVars

\* The audio element fires "ended": the onEnded handler of the component.
OnEnded ==
    /\ ~audio.paused
    /\ ~audio.ended
    /\ audio' = [audio EXCEPT !.ended = TRUE, !.paused = TRUE]
    /\ isPlaying' = FALSE
    /\ isPlayingRef' = FALSE
    /\ showPlayButton' = TRUE
    /\ debugInfo' = "Ready to play"
    /\ UNCHANGED <<variant, sceneRef, loadState, analyzer, pc, hist>>
    /\ UNCHANGED frameVars

\* The platform pauses the element (media key, audio interruption); the
\* component registers no handler for it.
ExternalPause ==
    /\ ~audio.paused
    /\ ~audio.ended
    /\ audio' = [audio EXCEPT !.paused = TRUE]
    /\ UNCHANGED <<variant, sceneRef, loadState, analyzer, isPlaying, isPlayingRef,
                   showPlayButton, debugInfo, pc, hist>>
    /\ UNCHANGED frameVars

\* ------------------------------------------------------------------ spectra
\* Band of bin i for boundaries e: 1 sub-bass .. 5 high.
BandOfBin(i, e) ==
    IF i < e.subBass THEN 1
    ELSE IF i < e.lowBass THEN 2
    ELSE IF i < e.lowMid THEN 3
    ELSE IF i < e.highMid THEN 4
    ELSE 5

\* The analyser snapshots a frame can read (getByteFrequencyData of the
\* combined, left and right analysers), given as one byte level per band:
\* a soft sub-bass note, and a full-scale signal on the right channel only.
Shapes ==
    { [d |-> <<160, 0, 0, 0, 0>>, l |-> <<160, 0, 0, 0, 0>>, r |-> <<160, 0, 0, 0, 0>>],
      [d |-> <<255, 255, 255, 255, 255>>, l |-> <<0, 0, 0, 0, 0>>,
       r |-> <<255, 255, 255, 255, 255>>] }

\* frequencyByteData for a shape: Uint8Array(binCount)
ByteData(levels, e) == [i \in Bins |-> levels[BandOfBin(i, e)]]

\* ------------------------------------------------- head variant: constants
\* BASS_CONFIG of AudioVisualizerWithObj.tsx, in thousandths where fractional
ObjConfig ==
    [subBassIntensity |-> 400, lowBassIntensity |-> 700, lowMidIntensity |-> 800,
     highMidIntensity |-> 900, highIntensity |-> 1000,
     radiusMultiplier |-> 15, radiusPower |-> 22, particleScaleMax |-> 3,
     roundnessMultiplier |-> 19, lightIntensityMultiplier |-> 6,
     rotationSpeedMax |-> 33, enableColorShift |-> TRUE,
     subBassShakeIntensity |-> 10, subBassRotationIntensity |-> 20,
     subBassThreshold |-> 200, subBassDecay |-> 50, subBassAttack |-> 5]

\* CHROMATIC_CONFIG.modes: max in millionths, decay in thousandths
ChromaticModes ==
    [SUBTLE |-> [max |-> 2000, decay |-> 920],
     NORMAL |-> [max |-> 5000, decay |-> 880],
     INTENSE |-> [max |-> 15000, decay |-> 850],
     GLITCH |-> [max |-> 30000, decay |-> 800]]

\* SHOOTING_STAR_CONFIG (thresholds in thousandths, times in ms)
StarConfig ==
    [highMidThreshold |-> 600, highFreqThreshold |-> 600, combinedThreshold |-> 600,
     starSpeed |-> 4000, starLifetime |-> 200, headFormationThreshold |-> 900,
     spawnRate |-> 10, headCenterY |-> 350, headRadius |-> 75]

\* const prefabDelay = 0.00015 (seconds), in microseconds
PrefabDelayUs == 150

\* minDuration = 40, maxDuration = 600: travel times of a particle.  They
\* are seconds of a track minutes long in the code; the model's track lasts
\* MaxFrames frames, and its travel times are the same numbers in ms.
MinDurationMs == 40

MaxDurationMs == 600

\* ---------------------------------------------- head variant: band averages
\* The band averages, channel averages and pans animate computes from one
\* snapshot (lines 1078-1174), before noise.
ObjBands(shape) ==
    LET e == ObjEnds
        c == ObjConfig
        d == ByteData(shape.d, e)
        l == ByteData(shape.l, e)
        r == ByteData(shape.r, e)
    IN [subBass |-> BandAvg(d, 0, e.subBass, c.subBassIntensity),
        lowBass |-> BandAvg(d, e.subBass, e.lowBass, c.lowBassIntensity),
        lowMid |-> BandAvg(d, e.lowBass, e.lowMid, c.lowMidIntensity),
        highMid |-> BandAvg(d, e.lowMid, e.highMid, c.highMidIntensity),
        high |-> BandAvg(d, e.highMid, Cap, c.highIntensity),
        subBassPan |-> calculatePan(BandAvg(l, 0, e.subBass, One),
                                    BandAvg(r, 0, e.subBass, One)),
        lowBassPan |-> calculatePan(BandAvg(l, e.subBass, e.lowBass, One),
                                    BandAvg(r, e.subBass, e.lowBass, One)),
        lowMidPan |-> calculatePan(BandAvg(l, e.lowBass, e.lowMid, One),
                                   BandAvg(r, e.lowBass, e.lowMid, One)),
        highMidPan |-> calculatePan(BandAvg(l, e.lowMid, e.highMid, One),
                                    BandAvg(r, e.lowMid, e.highMid, One)),
        highPan |-> calculatePan(BandAvg(l, e.highMid, Cap, One),
                                 BandAvg(r, e.highMid, Cap, One))]

\* value += Math.sin(...) * 0.05 * value
AddNoise(value, sn) == value + Mul(Mul(sn, 50), value)

\* The five averages after "Add noise to frequency averages".
ObjNoisy(b, sn) ==
    [b EXCEPT !.subBass = AddNoise(@, sn), !.lowBass = AddNoise(@, sn),
              !.lowMid = AddNoise(@, sn), !.highMid = AddNoise(@, sn),
              !.high = AddNoise(@, sn)]

\* Bass hit detection of the head variant (lines 1176-1189): above the
\* threshold, 10% above the previous frame's average, and more than 150 ms
\* after subBassPeakTime.
ObjIsBassHit(subBassAvg, a, dateNow) ==
    /\ subBassAvg > ObjConfig.subBassThreshold
    /\ subBassAvg * 10 > a.previousBassAvg * 11
    /\ dateNow - a.subBassPeakTime > 150

\* overallEnergy = sub*0.3 + lowBass*0.2 + lowMid*0.2 + highMid*0.15 + high*0.15
OverallEnergy(b) ==
    (b.subBass * 300 + b.lowBass * 200 + b.lowMid * 200 + b.highMid * 150
       + b.high * 150) \div One

\* ---------------------------------------- head variant: chromatic aberration
\* A cascade without the overall-energy step.
ChromaticModeNoNormal(isBassHit, subBassAvg, overallEnergy) ==
    IF isBassHit THEN "GLITCH"
    ELSE IF subBassAvg > 900 THEN "GLITCH"
    ELSE IF subBassAvg > 500 THEN "INTENSE"
    ELSE "SUBTLE"

\* "Determine mode based on audio analysis" (lines 1205-1217)
ChromaticModeOf(isBassHit, subBassAvg, overallEnergy) ==
    IF isBassHit THEN "GLITCH"
    ELSE IF subBassAvg > 900 THEN "GLITCH"
    ELSE IF subBassAvg > 500 THEN "INTENSE"
    ELSE IF overallEnergy > 600 THEN "NORMAL"
    ELSE "SUBTLE"

\* "Calculate target chromatic strength" (lines 1221-1244), in millionths
ChromaticTarget(mode, isBassHit, subBassAvg, overallEnergy, sn) ==
    LET mx == ChromaticModes[mode].max
        base == IF isBassHit
                THEN Mul(mx, 1500)
                ELSE Min(Mul(subBassAvg, mx) + Mul(Mul(overallEnergy, mx), 300), mx)
        pulse == Mul(sn, 500) + 500
    IN IF mode \in {"SUBTLE", "NORMAL"}
       THEN base + Mul(Mul(pulse, mx), 200)
       ELSE base

\* A launch on every hit, whatever the tracer's state.
TracerLaunchOnEveryHit(a, isBassHit) == isBassHit

\* if (isBassHit && !anim.chromaticTracerActive): a tracer is launched
TracerLaunch(a, isBassHit) == isBassHit /\ ~a.chromaticTracerActive

\* The chromatic part of an audio frame (lines 1203-1291): mode, target,
\* tracer launch and fade, eased strength, direction.  b holds the band
\* values before noise, time is anim.time in ms.
ChromaticStep(a, b, isBassHit, time, rnd, sn) ==
    LET overall == OverallEnergy(b)
        mode == ChromaticModeOf(isBassHit, b.subBass, overall)
        target == ChromaticTarget(mode, isBassHit, b.subBass, overall, sn)
        launch == TracerLaunch(a, isBassHit)
        active1 == a.chromaticTracerActive \/ launch
        tracer1 == IF launch THEN Mul(target, 800) ELSE a.chromaticTracer
        start1 == IF launch THEN time ELSE a.chromaticTracerStartTime
        expired == active1 /\ time - start1 >= 500
        smoothingRate == IF isBassHit THEN 150 ELSE One - ChromaticModes[mode].decay
        panX == Mul(Mul(b.subBassPan, 500), b.subBass)
        panY == Mul(b.high - b.lowBass, 300)
        dir == a.chromaticDirection
    IN [a EXCEPT
          !.overallEnergy = overall,
          !.chromaticMode = mode,
          !.chromaticTargetStrength = target,
          !.chromaticTracerActive = active1 /\ ~expired,
          !.chromaticTracer = IF ~active1 THEN tracer1
                              ELSE IF expired THEN 0 ELSE Mul(tracer1, 920),
          !.chromaticTracerStartTime = start1,
          !.chromaticStrength = @ + Mul(target - @, smoothingRate),
          !.chromaticDirection =
              IF isBassHit
              THEN <<panX + Mul(rnd - 500, 500), panY + Mul(rnd - 500, 500)>>
              ELSE <<dir[1] + Mul(panX - dir[1], 100), dir[2] + Mul(panY - dir[2], 100)>>]

\* ------------------------------------------------ head variant: shooting stars
\* One pool entry as the pool loop creates it (lines 531-560); baseIntensity
\* is Math.random() * 0.3 + 0.7, drawn once per slot.
NewStar(s) ==
    [active |-> FALSE, age |-> 0, lifetime |-> 0,
     startPosition |-> <<0, 0, 0>>, currentPosition |-> <<0, 0, 0>>,
     direction |-> <<0, 0, 0>>, speed |-> 0, intensity |-> 0,
     baseIntensity |-> IF s % 2 = 1 THEN 700 ELSE 999, visible |-> FALSE]

\* The unit vector (sin phi cos theta, cos phi, sin phi sin theta) for
\* phi = acos(rnd * 0.8 + 0.2), theta = rnd * 2 PI, tabulated for the two draws.
SpawnDirection(rnd) == IF rnd < 500 THEN <<980, 200, 0>> ELSE <<40, 999, 0>>

\* Number of particles the head formation loop samples (100 in the code).
HeadSamples == 3

\* Head formation progress (lines 1325-1336): the largest progress over the
\* sampled particles i = 0, 10, .., 990; every sample draws its duration.
HeadFormationProgress(time, rnd) ==
    LET duration == MinDurationMs + ((rnd * (MaxDurationMs - MinDurationMs)) \div One)
        progress(i) == Clamp01(Quot((time * 1000 - i * PrefabDelayUs), duration))
        samples == {10 * j : j \in 0 .. (HeadSamples - 1)}
    IN CHOOSE m \in {progress(i) : i \in samples} :
           \A i \in samples : progress(i) <= m

\* find() as it would be if a full pool handed out its first entry again.
FirstInactiveOrFirst(stars) ==
    IF \A s \in Slots : stars[s].active THEN 1
    ELSE CHOOSE s \in Slots : ~stars[s].active /\ \A q \in Slots : q < s => stars[q].active

\* shootingStars.find((star) => !star.active): the first inactive slot, 0 if none
FirstInactive(stars) ==
    IF \A s \in Slots : stars[s].active THEN 0
    ELSE CHOOSE s \in Slots : ~stars[s].active /\ \A q \in Slots : q < s => stars[q].active

\* The spawn conditions without the head-formation gate.
ShouldSpawnUnformed(a, nb, time, headProgress) ==
    LET combined == (nb.highMid * 600 + nb.high * 400) \div One
    IN /\ (nb.highMid >= StarConfig.highMidThreshold \/ nb.high >= StarConfig.highFreqThreshold)
       /\ combined >= StarConfig.combinedThreshold
       /\ time - a.lastStarSpawnTime >= StarConfig.spawnRate

\* The spawn conditions without the minimum interval between spawns.
ShouldSpawnNoInterval(a, nb, time, headProgress) ==
    LET combined == (nb.highMid * 600 + nb.high * 400) \div One
    IN /\ headProgress >= StarConfig.headFormationThreshold
       /\ (nb.highMid >= StarConfig.highMidThreshold \/ nb.high >= StarConfig.highFreqThreshold)
       /\ combined >= StarConfig.combinedThreshold

\* "SHOOTING STAR LOGIC" (lines 1343-1421): does this frame pass the spawn
\* conditions?  nb holds the band values after noise.
ShouldSpawn(a, nb, time, headProgress) ==
    LET combined == (nb.highMid * 600 + nb.high * 400) \div One
    IN /\ headProgress >= StarConfig.headFormationThreshold
       /\ (nb.highMid >= StarConfig.highMidThreshold \/ nb.high >= StarConfig.highFreqThreshold)
       /\ combined >= StarConfig.combinedThreshold
       /\ time - a.lastStarSpawnTime >= StarConfig.spawnRate

\* The reinitialisation of the claimed slot (lines 1384-1416).
SpawnStar(star, nb, rnd) ==
    LET combined == (nb.highMid * 600 + nb.high * 400) \div One
        dir == SpawnDirection(rnd)
        pos == <<(dir[1] * StarConfig.headRadius) \div One,
                 StarConfig.headCenterY + ((dir[2] * StarConfig.headRadius) \div One),
                 (dir[3] * StarConfig.headRadius) \div One>>
    IN [star EXCEPT
          !.active = TRUE, !.age = 0,
          !.lifetime = Mul(StarConfig.starLifetime, 700 + Mul(rnd, 600)),
          !.startPosition = pos, !.currentPosition = pos, !.direction = dir,
          !.speed = Mul(StarConfig.starSpeed, 800 + Mul(combined, 400)),
          !.intensity = Mul(combined, star.baseIntensity),
          !.visible = TRUE]

\* The pool after the spawn step of a frame.
SpawnStep(stars, a, nb, time, headProgress, rnd) ==
    LET slot == FirstInactive(stars)
    IN IF ShouldSpawn(a, nb, time, headProgress) /\ slot # 0
       THEN [stars EXCEPT ![slot] = SpawnStar(stars[slot], nb, rnd)]
       ELSE stars

\* An update that leaves every star as it found it.
UpdateStarSkipped(star, dt) == star

\* "Update shooting stars" (lines 1770-1817) for one star: age it, expire it
\* when age / lifetime >= 1, else move it along its direction.
UpdateStar(star, dt) ==
    IF ~star.active THEN star
    ELSE LET age1 == star.age + dt
             distance == (star.speed * dt) \div 1000
         IN IF age1 >= star.lifetime
            THEN [star EXCEPT !.age = age1, !.active = FALSE, !.visible = FALSE]
            ELSE [star EXCEPT
                    !.age = age1,
                    !.currentPosition =
                        <<@[1] + Quot(star.direction[1] * distance, One),
                          @[2] + Quot(star.direction[2] * distance, One),
                          @[3] + Quot(star.direction[3] * distance, One)>>]

\* The idle branch without the deactivation.
KeepStar(star) == star

\* "Deactivate all shooting stars when not playing" (lines 1855-1864)
DeactivateStar(star) ==
    IF star.active THEN [star EXCEPT !.active = FALSE, !.visible = FALSE] ELSE star

\* ------------------------------------------------------- FrameSignalMapper
\* Progress along the path is kept in millionths.
PPM == 1000000

\* let avgDuration = 170; avgDuration += Math.sin(noiseOffset * 0.5) * 10,
\* a travel time like minDuration, in ms
AvgDuration(sn) == 170 + ((sn * 10) \div One)

\* timeInPath = currentTime - k * prefabDelay, in microseconds
TimeInPath(time, k) == time * 1000 - k * PrefabDelayUs

\* Math.min(1.0, Math.max(0.0, timeInPath / avgDuration)), in millionths
ProgressAlongPath(tip, avgDuration) ==
    Min(PPM, Max(0, Quot(tip * 1000, avgDuration)))

\* The loop over the segments in flight (lines 1429-1446): running minimum
\* and maximum of their progress.
RECURSIVE VisibleLoop(_, _, _, _)
VisibleLoop(i, w, time, avgDuration) ==
    IF i = Cap THEN w
    ELSE LET tip == TimeInPath(time, i)
             progress == ProgressAlongPath(tip, avgDuration)
         IN IF tip > 0 /\ tip < avgDuration * 1000
            THEN VisibleLoop(i + 1, [min |-> Min(w.min, progress),
                                     max |-> Max(w.max, progress)], time, avgDuration)
            ELSE VisibleLoop(i + 1, w, time, avgDuration)

\* The window as the loop leaves it, without the fallback.
VisibleWindowNoFallback(time, avgDuration, fallbackMax) ==
    VisibleLoop(0, [min |-> PPM, max |-> 0], time, avgDuration)

\* The visible progress window (lines 1424-1451): [0, fallbackMax] when the
\* loop found max <= min.
VisibleWindow(time, avgDuration, fallbackMax) ==
    LET w == VisibleLoop(0, [min |-> PPM, max |-> 0], time, avgDuration)
    IN IF w.max <= w.min THEN [min |-> 0, max |-> fallbackMax] ELSE w

\* Five equal sections of the window (lines 1451-1456).
ObjThresholds(w) ==
    LET sectionSize == (w.max - w.min) \div 5
    IN [subBass |-> w.min + sectionSize, lowBass |-> w.min + sectionSize * 2,
        lowMid |-> w.min + sectionSize * 3, highMid |-> w.min + sectionSize * 4]

\* Math.pow(v, n) on thousandths
RECURSIVE Pow(_, _)
Pow(v, n) == IF n = 0 THEN One ELSE Mul(v, Pow(v, n - 1))

\* The section (1 sub-bass .. 5 high) of a segment in the pass loop.
SectionOf(progress, tip, th) ==
    IF progress <= th.subBass \/ tip <= 0 THEN 1
    ELSE IF progress < th.lowBass THEN 2
    ELSE IF progress < th.lowMid THEN 3
    ELSE IF progress < th.highMid THEN 4
    ELSE 5

\* freqValue of one segment of the pass loop (lines 1487-1555), in
\* thousandths of a byte: the weighted bin, or the band average when the bin
\* lies outside the band.
ObjFreqValue(pass, i, time, avgDuration, th, data, nb, isBassHit, rnd) ==
    LET idx == IF pass = 1 THEN Cap - 1 - i ELSE i
        tip == TimeInPath(time, IF pass < 2 THEN i ELSE i + Cap)
        sec == SectionOf(ProgressAlongPath(tip, avgDuration), tip, th)
        e == ObjEnds
        avg == CASE sec = 1 -> nb.subBass [] sec = 2 -> nb.lowBass
                 [] sec = 3 -> nb.lowMid [] sec = 4 -> nb.highMid [] OTHER -> nb.high
        weight == CASE sec = 1 -> 1800 + avg * 4 + Mul(rnd - 500, 300)
                    [] sec = 2 -> 1500 + avg * 3 + Mul(rnd - 500, 250)
                    [] sec = 3 -> 1200 + avg * 2 + Mul(rnd - 500, 200)
                    [] OTHER -> 1000 + Mul(avg, 1500) + Mul(rnd - 500, 150)
        inBand == CASE sec = 1 -> idx < e.subBass
                    [] sec = 2 -> idx >= e.subBass /\ idx < e.lowBass
                    [] sec = 3 -> idx >= e.lowBass /\ idx < e.lowMid
                    [] sec = 4 -> idx >= e.lowMid /\ idx < e.highMid
                    [] OTHER -> idx >= e.highMid
        fallback == CASE sec = 1 -> 600 [] sec = 2 -> 650 [] sec = 3 -> 700
                      [] sec = 4 -> 750 [] OTHER -> 800
        v0 == IF inBand THEN data[idx] * weight
              ELSE Mul(Mul(avg * 255, weight), fallback)
        v1 == IF sec = 1 /\ isBassHit /\ rnd > 700
              THEN v0 * ObjConfig.subBassAttack ELSE v0
    IN IF pass >= 2 THEN Mul(v1, 700) ELSE v1

\* a * b on thousandths for products past the integer range: a loses its
\* last digit first.
Scale(a, b) == Quot(Quot(a, 10) * b, 100)

\* A store into a Float32Array: magnitudes past the largest finite value
\* are stored as +-Infinity, which is the end of the model's range.
Float32Max == 1000000

Float32(v) == Max(0 - Float32Max, Min(Float32Max, v))

\* The shake and pan writes of the pass loop (lines 1557-1600), segment by
\* segment in loop order; k counts the segments i < pathLength of the four
\* passes, the only ones that write.
RECURSIVE ObjEffects(_, _, _, _, _, _, _, _, _)
ObjEffects(k, sp, time, avgDuration, th, nb, isBassHit, rnd, sn) ==
    IF k = 4 * PathLength THEN sp
    ELSE LET pass == k \div PathLength
             i == k % PathLength
             tip == TimeInPath(time, IF pass < 2 THEN i ELSE i + Cap)
             progress == ProgressAlongPath(tip, avgDuration)
             sec == SectionOf(progress, tip, th)
             pathIndex == (progress * (PathLength - 1)) \div PPM
             shakeIntensity == nb.subBass * ObjConfig.subBassShakeIntensity
             c == Mul(Mul(sn, shakeIntensity), rnd - 500)
             boost(v) == Float32(IF isBassHit THEN Mul(v + c, 1500) ELSE v + c)
             sh == sp.shake[pathIndex]
             next ==
                 IF ~(pathIndex >= 0 /\ pathIndex < PathLength) THEN sp
                 ELSE IF sec = 1 /\ nb.subBass > 30
                 THEN [shake |-> [sp.shake EXCEPT ![pathIndex] =
                                     <<boost(sh[1]), boost(sh[2]), boost(sh[3])>>],
                       pan |-> [sp.pan EXCEPT ![pathIndex] = Mul(nb.subBassPan, nb.subBass)]]
                 ELSE IF progress < th.lowBass
                 THEN [sp EXCEPT !.pan[pathIndex] = Mul(nb.lowBassPan, nb.lowBass)]
                 ELSE IF progress < th.lowMid
                 THEN [sp EXCEPT !.pan[pathIndex] = Mul(nb.lowMidPan, nb.lowMid)]
                 ELSE IF progress < th.highMid
                 THEN [sp EXCEPT !.pan[pathIndex] = Mul(nb.highMidPan, nb.highMid)]
                 ELSE [sp EXCEPT !.pan[pathIndex] = Mul(nb.highPan, nb.high)]
         IN IF DOMAIN next.pan = Points
            THEN ObjEffects(k + 1, next, time, avgDuration, th, nb, isBassHit, rnd, sn)
            ELSE sp

ZeroArray == [i \in Points |-> 0]

ZeroShake == [i \in Points |-> <<0, 0, 0>>]

\* A clear loop that leaves the pan entries of the previous callback alone.
ObjClearKeepsPan(prior) ==
    [radius |-> [i \in Points |-> Float32(Mul(prior.radius[i], ObjConfig.subBassDecay))],
     shake |-> ZeroShake, rotation |-> ZeroArray, pan |-> prior.pan]

\* "Clear arrays" (lines 1460-1468): shake, rotation and pan are zeroed and
\* the radius is scaled by subBassDecay, for every i < pathLength.  prior is
\* the four arrays as the previous callback left them.
ObjClear(prior) ==
    [radius |-> [i \in Points |-> Float32(Mul(prior.radius[i], ObjConfig.subBassDecay))],
     shake |-> ZeroShake, rotation |-> ZeroArray, pan |-> ZeroArray]

\* A rotation loop that only turns the first fifth of the path.
ObjRotationSubBassOnly(i, a, nb, isBassHit, sn) ==
    IF nb.subBass > 30 /\ i * 5 <= PathLength - 1
    THEN LET peakFactor == a.subBassPeak * 5 + 1500
             intensity == Mul((Mul(nb.subBass, 1500) + a.subBassPeak * 3)
                                 * ObjConfig.subBassRotationIntensity, peakFactor)
             r == Mul(sn, intensity)
         IN IF isBassHit THEN r * 3 ELSE r
    ELSE 0

\* "Apply sub-bass rotation to all path points" (lines 1470-1484), after the
\* clear loop set the entry to 0; subBassPeak enters the factors.
ObjRotation(i, a, nb, isBassHit, sn) ==
    IF nb.subBass > 30
    THEN LET peakFactor == a.subBassPeak * 5 + 1500
             intensity == Mul((Mul(nb.subBass, 1500) + a.subBassPeak * 3)
                                 * ObjConfig.subBassRotationIntensity, peakFactor)
             r == Mul(sn, intensity)
         IN IF isBassHit THEN r * 3 ELSE r
    ELSE 0

\* "Update radius array" (lines 1604-1642) for path point i, which always
\* has an entry in dataArray (4 * cap > pathLength).
ObjRadius(i, freqValue, nb, isBassHit, rnd, sn) ==
    LET val == Clamp01((freqValue \div 255) + Mul(sn, 20))
        base0 == Pow(val, ObjConfig.radiusPower) * ObjConfig.radiusMultiplier
                   + (rnd - 500) * 2
        inSubBass == i * 5 <= PathLength - 1
        base1 == IF inSubBass THEN base0 + Mul(nb.subBass, nb.subBass) * 120 ELSE base0
        base2 == IF inSubBass /\ isBassHit /\ rnd > 600
                 THEN base1 * ObjConfig.subBassAttack ELSE base1
    IN Max(One, base2)

\* The four per-path-point arrays an audio frame of the head variant hands
\* to the renderer (lines 1460-1642): the clear loop, the rotation loop, the
\* pass loop and the radius loop, applied to the arrays of the previous
\* callback.
ObjArrays(prior, a, time, isBassHit, shape, rnd, sn) ==
    LET nb == ObjNoisy([ObjBands(shape) EXCEPT !.subBass = Max(@, a.subBassPeak)], sn)
        avgDuration == AvgDuration(sn)
        th == ObjThresholds(VisibleWindow(time, avgDuration, PPM \div 2))
        data == ByteData(shape.d, ObjEnds)
        c == ObjClear(prior)
        eff == ObjEffects(0, [shake |-> c.shake, pan |-> c.pan], time, avgDuration,
                          th, nb, isBassHit, rnd, sn)
    IN [radius |-> [i \in Points |->
                      ObjRadius(i, ObjFreqValue(0, i, time, avgDuration, th, data,
                                                nb, isBassHit, rnd),
                                nb, isBassHit, rnd, sn)],
        shake |-> eff.shake,
        rotation |-> [i \in Points |-> IF nb.subBass > 30
                                        THEN ObjRotation(i, a, nb, isBassHit, sn)
                                        ELSE c.rotation[i]],
        pan |-> eff.pan]

\* ------------------------------------------------------------------- Init
\* animState.current as useRef creates it (all variants' fields together).
AnimInit ==
    [lastFrameTime |-> 0, time |-> 0, previousBassAvg |-> 0, bassHitTime |-> 0,
     subBassPeak |-> 0, subBassPeakTime |-> 0,
     chromaticStrength |-> 0, chromaticTargetStrength |-> 0, chromaticMode |-> "SUBTLE",
     chromaticDirection |-> <<0, 0>>, lastBassHitTime |-> 0, overallEnergy |-> 0,
     lastStarSpawnTime |-> 0, headFormationProgress |-> 0, currentParticleScale |-> One,
     chromaticTracer |-> 0, chromaticTracerStartTime |-> 0, chromaticTracerActive |-> FALSE,
     smoothedSubBassAvg |-> 0, smoothedLowBassAvg |-> 0, previousSubBassAvg |-> 0,
     previousLowBassAvg |-> 0]

\* The envelope part of animState: what hit detection and the envelopes
\* carry from one processed frame to the next.
EnvelopeOf(a) ==
    [previousBassAvg |-> a.previousBassAvg, bassHitTime |-> a.bassHitTime,
     subBassPeak |-> a.subBassPeak, subBassPeakTime |-> a.subBassPeakTime,
     lastBassHitTime |-> a.lastBassHitTime,
     smoothedSubBassAvg |-> a.smoothedSubBassAvg,
     smoothedLowBassAvg |-> a.smoothedLowBassAvg,
     previousSubBassAvg |-> a.previousSubBassAvg,
     previousLowBassAvg |-> a.previousLowBassAvg]

\* new CameraController(camera, renderer.domElement)
ControlsInit(v) ==
    [autoRotateSpeed |-> 100, rotationY |-> 0, lastTime |-> 0,
     distance |-> IF v = "Obj" THEN 2000 * One ELSE 1200 * One,
     targetDistance |-> IF v = "Obj" THEN 2000 * One ELSE 1200 * One]

UniformsInit ==
    [uRoundness |-> 2 * One, uParticleScale |-> One, uLightIntensity1 |-> 250,
     uLightIntensity2 |-> 250, uLightIntensity3 |-> 250, colorShift |-> FALSE]

FrameInit ==
    [branch |-> "none", prevBranch |-> "none", input |-> <<>>, isBassHit |-> FALSE,
     dateNow |-> DateBase, spawned |-> 0,
     poolFull |-> FALSE, shouldSpawn |-> FALSE, rawSubBass |-> 0, rawLowBass |-> 0,
     subBass |-> 0, rendered |-> FALSE]

HistInit ==
    [failures |-> 0, playsResolved |-> FALSE, ignored |-> FALSE,
     lastHitDate |-> 0 - 1, hitGap |-> 0 - 1]

\* The history with the two counters of the analyzer's construction: the
\* AudioAnalyzer objects created and the calls of createMediaElementSource.
\* They are kept where the history starts with them.
CountingHist == HistInit @@ [created |-> 0, srcCalls |-> 0]

\* The state after mount.  The head variant waits for loadOBJ before it sets
\* sceneRef; the other two set it in the effect itself.
MountedWith(v, calls, h) ==
    /\ variant = v
    /\ sceneRef = (v # "Obj")
    /\ loadState = IF v = "Obj" THEN "loading" ELSE "ready"
    /\ analyzer = NoAnalyzer
    /\ audio = [paused |-> TRUE, ended |-> FALSE, currentTime |-> 0]
    /\ isPlaying = FALSE
    /\ isPlayingRef = FALSE
    /\ showPlayButton = TRUE
    /\ debugInfo = IF v = "Obj" THEN "Loading..." ELSE "Ready to play"
    /\ pc = [c \in calls |-> "idle"]
    /\ now = 0
    /\ ticks = 0
    /\ frameCount = 0
    /\ anim = AnimInit
    /\ controls = ControlsInit(v)
    /\ shootingStars = [s \in Slots |-> NewStar(s)]
    /\ radiusArray = ZeroArray
    /\ shakeArray = ZeroShake
    /\ rotationArray = ZeroArray
    /\ panArray = ZeroArray
    /\ uniforms = UniformsInit
    /\ chroma = [uChromaticStrength |-> 0, uChromaticDirection |-> <<One, 0>>]
    /\ hist = h

Mounted(v) == MountedWith(v, Calls, HistInit)

InitOf(v) == Mounted(v) /\ frame = FrameInit

\* --------------------------------------------------------------- mesh load
\* loadOBJ(...).then(...): the particle system is built and sceneRef set.
LoadResolve ==
    /\ loadState = "loading"
    /\ loadState' = "ready"
    /\ sceneRef' = TRUE
    /\ debugInfo' = "Ready to play"
    /\ UNCHANGED <<variant, analyzer, audio, isPlaying, isPlayingRef, showPlayButton, pc, hist>>
    /\ UNCHANGED frameVars

\* The catch of loadOBJ as it would be if it still set sceneRef.
LoadRejectSetsScene ==
    /\ loadState = "loading"
    /\ loadState' = "failed"
    /\ sceneRef' = TRUE
    /\ debugInfo' = "Error loading model"
    /\ UNCHANGED <<variant, analyzer, audio, isPlaying, isPlayingRef, showPlayButton, pc, hist>>
    /\ UNCHANGED frameVars

\* loadOBJ(...).catch(...): only the status string changes.
LoadReject ==
    /\ loadState = "loading"
    /\ loadState' = "failed"
    /\ debugInfo' = "Error loading model"
    /\ UNCHANGED <<variant, sceneRef, analyzer, audio, isPlaying, isPlayingRef,
                   showPlayButton, pc, hist>>
    /\ UNCHANGED frameVars

\* ----------------------------------------------------------------- animate
\* The audio element's clock after dt ms of wall time.
AudioAfter(a, dt) ==
    IF ~a.paused /\ ~a.ended THEN [a EXCEPT !.currentTime = @ + dt] ELSE a

\* CameraController.update() of the head variant (lines 191-205): auto-rotate
\* by autoRotateSpeed * deltaTime * 0.3 and ease the distance.
ObjControlsUpdate(c, t) ==
    [c EXCEPT !.rotationY = @ + Mul(Mul(c.autoRotateSpeed, t - c.lastTime), 300),
              !.lastTime = t,
              !.distance = @ + Mul(c.targetDistance - @, 50)]

\* The condition of "Audio processing": analyzer && isPlayingRef.current &&
\* audioRef.current && !audioRef.current.paused
AudioBranch(a) == analyzer.exists /\ isPlayingRef /\ ~a.paused

\* The audio-processing branch of the head variant's animate (lines
\* 1060-1835).  t is performance.now(), a1 the audio element, deltaTime the
\* ms since the previous callback.
ObjAudioFrame(t, a1, deltaTime, shape, rnd, sn) ==
    LET time == a1.currentTime
        b0 == ObjBands(shape)
        isBassHit == ObjIsBassHit(b0.subBass, anim, DateNow(t))
        b == [b0 EXCEPT !.subBass = Max(@, anim.subBassPeak)]
        an1 == ChromaticStep([anim EXCEPT !.previousBassAvg = b0.subBass],
                             b, isBassHit, time, rnd, sn)
        nb == ObjNoisy(b, sn)
        kick == IF DateNow(t) - anim.bassHitTime < 500 THEN (rnd - 500) * 3 ELSE 0
        rotSpeed == 2000 + nb.subBass * ObjConfig.rotationSpeedMax + Mul(sn, 500) + kick
        headProgress == HeadFormationProgress(time, rnd)
        an2 == [an1 EXCEPT !.headFormationProgress = headProgress]
        should == ShouldSpawn(an2, nb, time, headProgress)
        slot == IF should THEN FirstInactive(shootingStars) ELSE 0
        stars1 == SpawnStep(shootingStars, an2, nb, time, headProgress, rnd)
        arr == ObjArrays([radius |-> radiusArray, shake |-> shakeArray,
                          rotation |-> rotationArray, pan |-> panArray],
                         anim, time, isBassHit, shape, rnd, sn)
        r == ObjConfig.roundnessMultiplier * Mul(nb.subBass, nb.subBass) + One
        bassScale == One + Mul(nb.subBass * (ObjConfig.particleScaleMax - 1), 1500)
        target == Max(One + OverallEnergy(nb) * (ObjConfig.particleScaleMax - 1), bassScale)
                    + Mul(sn, 50)
        scale == anim.currentParticleScale + Mul(target - anim.currentParticleScale, 250)
        li == nb.subBass * ObjConfig.lightIntensityMultiplier
        flicker == IF isBassHit THEN 800 + Mul(rnd, 400) ELSE 900 + Mul(rnd, 100)
        dim == Mul(Mul(Mul(Mul(li, li), li), 500), 900 + Mul(rnd, 100))
    IN /\ anim' = [an2 EXCEPT !.lastFrameTime = t, !.time = time,
                              !.lastStarSpawnTime = IF slot # 0 THEN time ELSE @,
                              !.currentParticleScale = scale]
       /\ controls' = [ObjControlsUpdate(controls, t) EXCEPT !.autoRotateSpeed = rotSpeed]
       /\ shootingStars' = [s \in Slots |-> UpdateStar(stars1[s], deltaTime)]
       /\ radiusArray' = arr.radius
       /\ shakeArray' = arr.shake
       /\ rotationArray' = arr.rotation
       /\ panArray' = arr.pan
       /\ uniforms' = [uRoundness |-> r + Mul(sn, 500), uParticleScale |-> scale,
                       uLightIntensity1 |-> Mul(Mul(li, li), flicker),
                       uLightIntensity2 |-> dim, uLightIntensity3 |-> dim,
                       colorShift |-> ObjConfig.enableColorShift /\ nb.subBass > 500]
       /\ debugInfo' = IF frameCount % 30 = 0 THEN "Stats" ELSE debugInfo
       /\ frame' = [branch |-> "audio", prevBranch |-> frame.branch,
                    input |-> <<shape, rnd, sn>>,
                    isBassHit |-> isBassHit, dateNow |-> DateNow(t),
                    spawned |-> slot, poolFull |-> \A s \in Slots : shootingStars[s].active,
                    shouldSpawn |-> should, rawSubBass |-> b0.subBass,
                    rawLowBass |-> b0.lowBass, subBass |-> nb.subBass, rendered |-> TRUE]
       /\ hist' = [hist EXCEPT
                     !.lastHitDate = IF isBassHit THEN DateNow(t) ELSE @,
                     !.hitGap = IF isBassHit /\ hist.lastHitDate >= 0
                                THEN DateNow(t) - hist.lastHitDate ELSE @]

\* The else branch without the loop that zeroes the four arrays.
ObjIdleFrameNoReset(t, a1) ==
    /\ anim' = [anim EXCEPT !.lastFrameTime = t, !.time = a1.currentTime,
                            !.chromaticStrength = Mul(@, 950),
                            !.headFormationProgress = 0, !.lastStarSpawnTime = 0]
    /\ controls' = [ObjControlsUpdate(controls, t) EXCEPT !.autoRotateSpeed = 100]
    /\ shootingStars' = [s \in Slots |-> DeactivateStar(shootingStars[s])]
    /\ UNCHANGED <<radiusArray, shakeArray, rotationArray, panArray, uniforms, debugInfo>>
    /\ frame' = [FrameInit EXCEPT !.branch = "idle", !.prevBranch = frame.branch,
                                  !.dateNow = DateNow(t), !.rendered = TRUE]
    /\ hist' = hist

\* The else branch of the head variant's animate (lines 1836-1865).
ObjIdleFrame(t, a1) ==
    /\ anim' = [anim EXCEPT !.lastFrameTime = t, !.time = a1.currentTime,
                            !.chromaticStrength = Mul(@, 950),
                            !.headFormationProgress = 0, !.lastStarSpawnTime = 0]
    /\ controls' = [ObjControlsUpdate(controls, t) EXCEPT !.autoRotateSpeed = 100]
    /\ shootingStars' = [s \in Slots |-> DeactivateStar(shootingStars[s])]
    /\ radiusArray' = ZeroArray
    /\ shakeArray' = ZeroShake
    /\ rotationArray' = ZeroArray
    /\ panArray' = ZeroArray
    /\ UNCHANGED <<uniforms, debugInfo>>
    /\ frame' = [FrameInit EXCEPT !.branch = "idle", !.prevBranch = frame.branch,
                                  !.dateNow = DateNow(t), !.rendered = TRUE]
    /\ hist' = hist

\* One requestAnimationFrame callback of the head variant, FrameMs after the
\* previous one: animate of AudioVisualizerWithObj.tsx.
FrameObj(shape, rnd, sn) ==
    /\ variant = "Obj"
    /\ ticks < MaxFrames
    /\ ticks' = ticks + 1
    /\ now' = now + FrameMs
    /\ audio' = AudioAfter(audio, FrameMs)
    /\ UNCHANGED <<variant, sceneRef, loadState, analyzer, isPlaying, isPlayingRef,
                   showPlayButton, pc>>
    /\ IF ~sceneRef
       THEN /\ anim' = [anim EXCEPT !.lastFrameTime = now']
            /\ frame' = [FrameInit EXCEPT !.branch = "early",
                                          !.prevBranch = frame.branch,
                                          !.dateNow = DateNow(now')]
            /\ UNCHANGED <<frameCount, controls, shootingStars, radiusArray, shakeArray,
                           rotationArray, panArray, uniforms, chroma, debugInfo, hist>>
       ELSE /\ IF AudioBranch(audio')
               THEN ObjAudioFrame(now', audio', now' - anim.lastFrameTime, shape, rnd, sn)
               ELSE ObjIdleFrame(now', audio')
            /\ chroma' = [uChromaticStrength |-> anim'.chromaticStrength + anim'.chromaticTracer,
                          uChromaticDirection |-> anim'.chromaticDirection]
            /\ frameCount' = frameCount + 1

\* ------------------------------------------------- AudioVisualizer (AV)
\* BASS_CONFIG of AudioVisualizer.tsx
AVConfig ==
    [subBassIntensity |-> 500, lowBassIntensity |-> 600, lowMidIntensity |-> 800,
     highMidIntensity |-> 900, highIntensity |-> 700,
     radiusMultiplier |-> 15, radiusPower |-> 8, particleScaleMax |-> 2,
     roundnessMultiplier |-> 4, lightIntensityMultiplier |-> 6,
     rotationSpeedMax |-> 3, enableColorShift |-> TRUE,
     subBassShakeIntensity |-> 8, subBassRotationIntensity |-> 1]

\* Snapshots the AudioVisualizer frames read: a faint note in the two bass
\* bands, and a full-scale signal on the right channel only.
AVShapes ==
    { [d |-> <<20, 20, 0, 0, 0>>, l |-> <<20, 20, 0, 0, 0>>, r |-> <<20, 20, 0, 0, 0>>],
      [d |-> <<255, 255, 255, 255, 255>>, l |-> <<0, 0, 0, 0, 0>>,
       r |-> <<255, 255, 255, 255, 255>>] }

\* One envelope update (lines 914-930 for sub-bass, gain 2.0; lines 946-961
\* for low-bass, gain 1.5): transient boost when the raw value rose by more
\* than 0.05, then fast attack or conditional decay.
OnsetBoost(smoothed, previousRaw, raw, gain) ==
    IF raw - previousRaw > 50
    THEN Min(1500, smoothed + Mul(raw - previousRaw, gain))
    ELSE smoothed

\* The envelope without its fast-attack branch.
EnvelopeNoAttack(smoothed, previousRaw, raw, gain) ==
    LET boosted == OnsetBoost(smoothed, previousRaw, raw, gain)
        decayRate == IF boosted > 800 THEN 100 ELSE 500
    IN (boosted * (One - decayRate) + raw * decayRate) \div One

Envelope(smoothed, previousRaw, raw, gain) ==
    LET boosted == OnsetBoost(smoothed, previousRaw, raw, gain)
        decayRate == IF boosted > 800 THEN 100 ELSE 500
    IN IF raw > boosted
       THEN raw
       ELSE (boosted * (One - decayRate) + raw * decayRate) \div One

\* Raw band averages and pans of AudioVisualizer (lines 902-1015).
AVBands(shape) ==
    LET e == AVEnds
        c == AVConfig
        d == ByteData(shape.d, e)
        l == ByteData(shape.l, e)
        r == ByteData(shape.r, e)
    IN [subBass |-> BandAvg(d, 0, e.subBass, c.subBassIntensity),
        lowBass |-> BandAvg(d, e.subBass, e.lowBass, c.lowBassIntensity),
        lowMid |-> BandAvg(d, e.lowBass, e.lowMid, c.lowMidIntensity),
        highMid |-> BandAvg(d, e.lowMid, e.highMid, c.highMidIntensity),
        high |-> BandAvg(d, e.highMid, Cap, c.highIntensity),
        subBassPan |-> calculatePan(BandAvg(l, 0, e.subBass, One),
                                    BandAvg(r, 0, e.subBass, One)),
        lowBassPan |-> calculatePan(BandAvg(l, e.subBass, e.lowBass, One),
                                    BandAvg(r, e.subBass, e.lowBass, One)),
        lowMidPan |-> calculatePan(BandAvg(l, e.lowBass, e.lowMid, One),
                                   BandAvg(r, e.lowBass, e.lowMid, One)),
        highMidPan |-> calculatePan(BandAvg(l, e.lowMid, e.highMid, One),
                                    BandAvg(r, e.lowMid, e.highMid, One)),
        highPan |-> calculatePan(BandAvg(l, e.highMid, Cap, One),
                                 BandAvg(r, e.highMid, Cap, One))]

\* A level detector: the hit test without the previous-value condition.
LevelHit(value, previousBassAvg) == value > 600

\* bassHit = subBassAvg > 0.6 && anim.previousBassAvg < 0.5 (AudioVisualizer
\* line 1040, AudioVisualizer2 line 771, part_000 line 740)
SimpleBassHit(value, previousBassAvg) == value > 600 /\ previousBassAvg < 500

\* Section sizes 10%, 30%, 20%, 20%, 20% of the window (lines 1080-1093).
AVThresholds(w) ==
    LET range == w.max - w.min
        sub == w.min + range \div 10
        lowBass == sub + (range * 3) \div 10
        lowMid == lowBass + range \div 5
    IN [subBass |-> sub, lowBass |-> lowBass, lowMid |-> lowMid,
        highMid |-> lowMid + range \div 5]

\* dataArray[i] for i < cap, the first pass of the loop (lines 1105-1183).
AVFreqValue(i, time, avgDuration, th, data, nb, bassHit, rnd) ==
    LET tip == TimeInPath(time, i)
        sec == SectionOf(ProgressAlongPath(tip, avgDuration), tip, th)
        e == AVEnds
        avg == CASE sec = 1 -> nb.subBass [] sec = 2 -> nb.lowBass
                 [] sec = 3 -> nb.lowMid [] sec = 4 -> nb.highMid [] OTHER -> nb.high
        weight == CASE sec = 1 -> 1800 + avg * 4 + Mul(rnd - 500, 300)
                    [] sec = 2 -> 1500 + avg * 3 + Mul(rnd - 500, 250)
                    [] sec = 3 -> 1200 + avg * 2 + Mul(rnd - 500, 200)
                    [] OTHER -> 1000 + Mul(avg, 1500) + Mul(rnd - 500, 150)
        inBand == CASE sec = 1 -> i < e.subBass
                    [] sec = 2 -> i >= e.subBass /\ i < e.lowBass
                    [] sec = 3 -> i >= e.lowBass /\ i < e.lowMid
                    [] sec = 4 -> i >= e.lowMid /\ i < e.highMid
                    [] OTHER -> i >= e.highMid
        fallback == CASE sec = 1 -> 600 [] sec = 2 -> 650 [] sec = 3 -> 700
                      [] sec = 4 -> 750 [] OTHER -> 800
        v0 == IF inBand THEN data[i] * weight
              ELSE Scale(Mul(avg, weight) * 255, fallback)
    IN IF sec = 1 /\ bassHit /\ rnd > 700 THEN Scale(v0, 1300 + Mul(rnd, 400)) ELSE v0

\* The shake, rotation and pan writes of the pass loop (lines 1185-1243),
\* segment by segment in loop order over the segments i < pathLength.
RECURSIVE AVEffects(_, _, _, _, _, _, _, _, _)
AVEffects(k, acc, time, avgDuration, th, nb, bassHit, rnd, sn) ==
    IF k = 4 * PathLength THEN acc
    ELSE LET pass == k \div PathLength
             i == k % PathLength
             tip == TimeInPath(time, IF pass < 2 THEN i ELSE i + Cap)
             progress == ProgressAlongPath(tip, avgDuration)
             sec == SectionOf(progress, tip, th)
             pathIndex == (progress * (PathLength - 1)) \div PPM
             c == Mul(Mul(sn, nb.subBass * AVConfig.subBassShakeIntensity), rnd - 500)
             boost(v) == Float32(IF bassHit THEN Mul(v + c, 1500) ELSE v + c)
             sh == acc.shake[pathIndex]
             rot == Mul(sn, nb.subBass * AVConfig.subBassRotationIntensity)
             pan == IF sec = 1 /\ nb.subBass > 100 THEN Mul(nb.subBassPan, nb.subBass)
                    ELSE IF progress < th.lowBass THEN Mul(nb.lowBassPan, nb.lowBass)
                    ELSE IF progress < th.lowMid THEN Mul(nb.lowMidPan, nb.lowMid)
                    ELSE IF progress < th.highMid THEN Mul(nb.highMidPan, nb.highMid)
                    ELSE Mul(nb.highPan, nb.high)
             next ==
                 IF ~(pathIndex >= 0 /\ pathIndex < PathLength) THEN acc
                 ELSE IF sec = 1 /\ nb.subBass > 100
                 THEN [shake |-> [acc.shake EXCEPT ![pathIndex] =
                                     <<boost(sh[1]), boost(sh[2]), boost(sh[3])>>],
                       rotation |-> [acc.rotation EXCEPT ![pathIndex] =
                                        IF bassHit THEN rot * 2 ELSE rot],
                       pan |-> [acc.pan EXCEPT ![pathIndex] = pan]]
                 ELSE [acc EXCEPT !.pan[pathIndex] = pan]
         IN IF DOMAIN next.pan = Points
            THEN AVEffects(k + 1, next, time, avgDuration, th, nb, bassHit, rnd, sn)
            ELSE acc

\* "Update radius array based on processed data" (lines 1248-1302) for path
\* point i, which always has an entry in dataArray.
AVRadius(i, freqValue, nb, bassHit, rnd, sn) ==
    LET val == Clamp01((freqValue \div 255) + Mul(sn, 20))
        base0 == Pow(val, AVConfig.radiusPower) * AVConfig.radiusMultiplier
                   + (rnd - 500) * 2
        inSubBass == i * 10 <= PathLength - 1
        base1 == IF inSubBass THEN base0 + Mul(nb.subBass, nb.subBass) * 120 ELSE base0
        base2 == IF inSubBass /\ bassHit /\ rnd > 600
                 THEN Mul(base1, 1200 + Mul(rnd, 300)) ELSE base1
    IN Max(One, base2)

\* CameraController.update() of AudioVisualizer and AudioVisualizer2 (lines
\* 93-104): auto-rotate by autoRotateSpeed * 0.005 and ease the distance.
AVControlsUpdate(c) ==
    [c EXCEPT !.rotationY = @ + Mul(c.autoRotateSpeed, 5),
              !.distance = @ + Mul(c.targetDistance - @, 50)]

\* Uniforms and lights of an audio frame of AudioVisualizer and
\* AudioVisualizer2 (AudioVisualizer lines 1304-1434); bass is the sub-bass
\* (bass) value after noise, energy the overallEnergy of the variant.
AVUniforms(cfg, bass, energy, bassHit, rnd, sn) ==
    LET r == cfg.roundnessMultiplier * Mul(bass, bass) + One
        bassScale == One + Mul(bass * (cfg.particleScaleMax - 1), 1500)
        scale == Max(One + energy * (cfg.particleScaleMax - 1), bassScale) + Mul(sn, 50)
        li == bass * cfg.lightIntensityMultiplier
        flicker == IF bassHit THEN 800 + Mul(rnd, 400) ELSE 900 + Mul(rnd, 100)
        dim == Mul(Mul(Mul(Mul(li, li), li), 500), 900 + Mul(rnd, 100))
    IN [uRoundness |-> r + Mul(sn, 500), uParticleScale |-> scale,
        uLightIntensity1 |-> Mul(Mul(li, li), flicker),
        uLightIntensity2 |-> dim, uLightIntensity3 |-> dim,
        colorShift |-> cfg.enableColorShift /\ bass > 500]


\* "Add noise to frequency averages" (lines 1017-1037)
AVNoisy(b, sn) ==
    [b EXCEPT !.subBass = AddNoise(@, sn), !.lowBass = AddNoise(@, sn),
              !.lowMid = AddNoise(@, sn), !.highMid = AddNoise(@, sn),
              !.high = AddNoise(@, sn)]

\* The audio-processing branch of AudioVisualizer's animate (lines 865-1448).
AVAudioFrame(t, a1, shape, rnd, sn) ==
    LET time == a1.currentTime
        raw == AVBands(shape)
        smSub == Envelope(anim.smoothedSubBassAvg, anim.previousSubBassAvg,
                          raw.subBass, 2000)
        smLow == Envelope(anim.smoothedLowBassAvg, anim.previousLowBassAvg,
                          raw.lowBass, 1500)
        nb == AVNoisy([raw EXCEPT !.subBass = smSub, !.lowBass = smLow], sn)
        bassHit == SimpleBassHit(nb.subBass, anim.previousBassAvg)
        hitTime == IF bassHit THEN DateNow(t) ELSE anim.bassHitTime
        avgDuration == AvgDuration(sn)
        th == AVThresholds(VisibleWindow(time, avgDuration, PPM \div 2))
        data == ByteData(shape.d, AVEnds)
        eff == AVEffects(0, [shake |-> ZeroShake, rotation |-> ZeroArray,
                             pan |-> ZeroArray],
                         time, avgDuration, th, nb, bassHit, rnd, sn)
        kick == IF DateNow(t) - hitTime < 500 THEN (rnd - 500) * 3 ELSE 0
        rotSpeed == 2000 + nb.subBass * AVConfig.rotationSpeedMax + Mul(sn, 500) + kick
    IN /\ anim' = [anim EXCEPT !.time = time,
                              !.smoothedSubBassAvg = smSub,
                              !.previousSubBassAvg = raw.subBass,
                              !.smoothedLowBassAvg = smLow,
                              !.previousLowBassAvg = raw.lowBass,
                              !.previousBassAvg = nb.subBass,
                              !.bassHitTime = hitTime]
       /\ controls' = [AVControlsUpdate(controls) EXCEPT !.autoRotateSpeed = rotSpeed]
       /\ radiusArray' = [i \in Points |->
                             AVRadius(i, AVFreqValue(i, time, avgDuration, th, data, nb,
                                                     bassHit, rnd),
                                      nb, bassHit, rnd, sn)]
       /\ shakeArray' = eff.shake
       /\ rotationArray' = eff.rotation
       /\ panArray' = eff.pan
       /\ uniforms' = AVUniforms(AVConfig, nb.subBass, OverallEnergy(nb), bassHit, rnd, sn)
       /\ debugInfo' = IF frameCount' % 30 = 0 THEN "Stats" ELSE debugInfo
       /\ frame' = [branch |-> "audio", prevBranch |-> frame.branch,
                    input |-> <<shape, rnd, sn>>,
                    isBassHit |-> bassHit, dateNow |-> DateNow(t),
                    spawned |-> 0, poolFull |-> FALSE, shouldSpawn |-> FALSE,
                    rawSubBass |-> raw.subBass, rawLowBass |-> raw.lowBass,
                    subBass |-> nb.subBass, rendered |-> TRUE]
       /\ hist' = [hist EXCEPT
                     !.lastHitDate = IF bassHit THEN DateNow(t) ELSE @,
                     !.hitGap = IF bassHit /\ hist.lastHitDate >= 0
                                THEN DateNow(t) - hist.lastHitDate ELSE @]

\* "Default animation when not playing" (lines 1449-1459)
AVIdleFrame(t, a1) ==
    /\ anim' = [anim EXCEPT !.time = a1.currentTime]
    /\ controls' = AVControlsUpdate(controls)
    /\ radiusArray' = ZeroArray
    /\ shakeArray' = ZeroShake
    /\ rotationArray' = ZeroArray
    /\ panArray' = ZeroArray
    /\ UNCHANGED <<uniforms, debugInfo, hist>>
    /\ frame' = [FrameInit EXCEPT !.branch = "idle", !.prevBranch = frame.branch,
                                  !.dateNow = DateNow(t), !.rendered = TRUE]

\* One requestAnimationFrame callback of AudioVisualizer: animate (lines
\* 827-1462).  frameCount is advanced before the sceneRef test.
FrameAV(shape, rnd, sn) ==
    /\ variant = "AV"
    /\ ticks < MaxFrames
    /\ ticks' = ticks + 1
    /\ now' = now + FrameMs
    /\ audio' = AudioAfter(audio, FrameMs)
    /\ frameCount' = frameCount + 1
    /\ UNCHANGED <<variant, sceneRef, loadState, analyzer, isPlaying, isPlayingRef,
                   showPlayButton, pc, shootingStars, chroma>>
    /\ IF ~sceneRef
       THEN /\ frame' = [FrameInit EXCEPT !.branch = "early",
                                          !.prevBranch = frame.branch,
                                          !.dateNow = DateNow(now')]
            /\ UNCHANGED <<anim, controls, radiusArray, shakeArray, rotationArray,
                           panArray, uniforms, debugInfo, hist>>
       ELSE IF AudioBranch(audio')
       THEN AVAudioFrame(now', audio', shape, rnd, sn)
       ELSE AVIdleFrame(now', audio')

\* ------------------------------------------------ AudioVisualizer2 (AV2)
\* BASS_CONFIG of AudioVisualizer2.tsx
AV2Config ==
    [bassIntensity |-> 700, midIntensity |-> 600, highIntensity |-> 600,
     radiusMultiplier |-> 16, radiusPower |-> 10, particleScaleMax |-> 2,
     roundnessMultiplier |-> 8, lightIntensityMultiplier |-> 6,
     rotationSpeedMax |-> 5, enableColorShift |-> TRUE]

\* Snapshots the AudioVisualizer2 frames read, one byte level for the bass,
\* mid and high bins: a bass at 0.3 of full intensity, and a loud signal whose
\* bass average (0.62) is within the 5% noise of the hit level 0.6.
AV2Shapes == { <<110, 40, 0>>, <<225, 255, 255>> }

\* frequencyByteData for a snapshot
AV2ByteData(levels) ==
    [i \in Bins |-> IF i < AV2Ends.bass THEN levels[1]
                    ELSE IF i < AV2Ends.mid THEN levels[2] ELSE levels[3]]

\* bassAvg, midAvg and highAvg after their noise terms (lines 753-797)
AV2Bands(data, sn) ==
    [bass |-> AddNoise(BandAvg(data, 0, AV2Ends.bass, AV2Config.bassIntensity), sn),
     mid |-> AddNoise(BandAvg(data, AV2Ends.bass, AV2Ends.mid, AV2Config.midIntensity), sn),
     high |-> AddNoise(BandAvg(data, AV2Ends.mid, Cap, AV2Config.highIntensity), sn)]

\* bassThreshold and midThreshold: thirds of the window (lines 843-847)
AV2Thresholds(w) ==
    [bass |-> w.min + (w.max - w.min) \div 3,
     mid |-> w.min + (2 * (w.max - w.min)) \div 3]

\* dataArray[i] for i < cap, the first pass of the loop (lines 849-900).
AV2FreqValue(i, time, avgDuration, th, data, nb, bassHit, rnd) ==
    LET tip == TimeInPath(time, i)
        progress == ProgressAlongPath(tip, avgDuration)
        sec == IF progress <= th.bass \/ tip <= 0 THEN 1
               ELSE IF progress < th.mid THEN 2 ELSE 3
        avg == CASE sec = 1 -> nb.bass [] sec = 2 -> nb.mid [] OTHER -> nb.high
        weight == CASE sec = 1 -> 1800 + avg * 4 + Mul(rnd - 500, 300)
                    [] sec = 2 -> 1200 + avg * 2 + Mul(rnd - 500, 200)
                    [] OTHER -> 1000 + Mul(avg, 1500) + Mul(rnd - 500, 150)
        inBand == CASE sec = 1 -> i < AV2Ends.bass
                    [] sec = 2 -> i >= AV2Ends.bass /\ i < AV2Ends.mid
                    [] OTHER -> i >= AV2Ends.mid
        fallback == CASE sec = 1 -> 600 [] sec = 2 -> 700 [] OTHER -> 800
        v0 == IF inBand THEN data[i] * weight
              ELSE Scale(Mul(avg, weight) * 255, fallback)
    IN IF sec = 1 /\ bassHit /\ rnd > 700 THEN Scale(v0, 1300 + Mul(rnd, 400)) ELSE v0

\* "Update radius array based on processed data" (lines 903-934) for path
\* point i; dataArray has 4 * cap entries, so only point 0 takes the else.
AV2Radius(i, freqValue, time, avgDuration, th, nb, bassHit, rnd, sn) ==
    IF i # 0 /\ 4 * Cap - i > 1
    THEN LET val == Clamp01((freqValue \div 255) + Mul(sn, 20))
             base0 == Pow(val, AV2Config.radiusPower) * AV2Config.radiusMultiplier
                        + (rnd - 500) * 2
             tip == TimeInPath(time, i % (Cap * 2))
             inBass == ProgressAlongPath(tip, avgDuration) <= th.bass \/ tip < 0
             base1 == IF inBass THEN base0 + Mul(nb.bass, nb.bass) * 120 ELSE base0
             base2 == IF inBass /\ bassHit /\ rnd > 600
                      THEN Mul(base1, 1200 + Mul(rnd, 300)) ELSE base1
         IN Max(One, base2)
    ELSE 128 * One

\* The audio-processing branch of AudioVisualizer2's animate (lines 720-1064).
AV2AudioFrame(t, a1, levels, rnd, sn) ==
    LET time == a1.currentTime
        data == AV2ByteData(levels)
        nb == AV2Bands(data, sn)
        bassHit == SimpleBassHit(nb.bass, anim.previousBassAvg)
        hitTime == IF bassHit THEN DateNow(t) ELSE anim.bassHitTime
        avgDuration == AvgDuration(sn)
        th == AV2Thresholds(VisibleWindow(time, avgDuration, (3 * PPM) \div 10))
        energy == (nb.bass * 500 + nb.mid * 300 + nb.high * 200) \div One
        kick == IF DateNow(t) - hitTime < 500 THEN (rnd - 500) * 3 ELSE 0
        rotSpeed == 2000 + nb.bass * AV2Config.rotationSpeedMax + Mul(sn, 500) + kick
    IN /\ anim' = [anim EXCEPT !.time = time, !.previousBassAvg = nb.bass,
                              !.bassHitTime = hitTime]
       /\ controls' = [AVControlsUpdate(controls) EXCEPT !.autoRotateSpeed = rotSpeed]
       /\ radiusArray' = [i \in Points |->
                             AV2Radius(i, AV2FreqValue(i, time, avgDuration, th, data, nb,
                                                       bassHit, rnd),
                                       time, avgDuration, th, nb, bassHit, rnd, sn)]
       /\ uniforms' = AVUniforms(AV2Config, nb.bass, energy, bassHit, rnd, sn)
       /\ debugInfo' = IF frameCount' % 30 = 0 THEN "Stats" ELSE debugInfo
       /\ frame' = [branch |-> "audio", prevBranch |-> frame.branch,
                    input |-> <<levels, rnd, sn>>,
                    isBassHit |-> bassHit, dateNow |-> DateNow(t),
                    spawned |-> 0, poolFull |-> FALSE, shouldSpawn |-> FALSE,
                    rawSubBass |-> 0, rawLowBass |-> 0,
                    subBass |-> nb.bass, rendered |-> TRUE]
       /\ hist' = [hist EXCEPT
                     !.lastHitDate = IF bassHit THEN DateNow(t) ELSE @,
                     !.hitGap = IF bassHit /\ hist.lastHitDate >= 0
                                THEN DateNow(t) - hist.lastHitDate ELSE @]

\* "Default animation when not playing" (lines 1064-1077)
AV2IdleFrame(t, a1) ==
    /\ anim' = [anim EXCEPT !.time = a1.currentTime]
    /\ controls' = AVControlsUpdate(controls)
    /\ radiusArray' = ZeroArray
    /\ UNCHANGED <<uniforms, debugInfo, hist>>
    /\ frame' = [FrameInit EXCEPT !.branch = "idle", !.prevBranch = frame.branch,
                                  !.dateNow = DateNow(t), !.rendered = TRUE]

\* One requestAnimationFrame callback of AudioVisualizer2: animate (lines
\* 696-1080).  The component has a radius array only.
FrameAV2(levels, rnd, sn) ==
    /\ variant = "AV2"
    /\ ticks < MaxFrames
    /\ ticks' = ticks + 1
    /\ now' = now + FrameMs
    /\ audio' = AudioAfter(audio, FrameMs)
    /\ frameCount' = frameCount + 1
    /\ UNCHANGED <<variant, sceneRef, loadState, analyzer, isPlaying, isPlayingRef,
                   showPlayButton, pc, shootingStars, chroma, shakeArray,
                   rotationArray, panArray>>
    /\ IF ~sceneRef
       THEN /\ frame' = [FrameInit EXCEPT !.branch = "early",
                                          !.prevBranch = frame.branch,
                                          !.dateNow = DateNow(now')]
            /\ UNCHANGED <<anim, controls, radiusArray, uniforms, debugInfo, hist>>
       ELSE IF AudioBranch(audio')
       THEN AV2AudioFrame(now', audio', levels, rnd, sn)
       ELSE AV2IdleFrame(now', audio')

\* ------------------------------------------------------------ specification
HandlePlayStep ==
    \E c \in Calls, ctorOk \in BOOLEAN, ctxState \in {"suspended", "running"},
       srcOk \in BOOLEAN : HandlePlay(c, ctorOk, ctxState, srcOk)

InitResumeResolveStep == \E c \in Calls, srcOk \in BOOLEAN : InitResumeResolve(c, srcOk)

InitResumeRejectStep == \E c \in Calls : InitResumeReject(c)

PlayResolveStep == \E c \in Calls : PlayResolve(c)

PlayRejectStep == \E c \in Calls : PlayReject(c)

FrameObjStep == \E shape \in Shapes, d \in Draws : FrameObj(shape, d.rnd, d.sn)

InitObj == InitOf("Obj")

NextObj ==
    \/ LoadResolve
    \/ LoadReject
    \/ HandlePlayStep
    \/ InitResumeResolveStep
    \/ InitResumeRejectStep
    \/ PlayResolveStep
    \/ PlayRejectStep
    \/ OnEnded
    \/ ExternalPause
    \/ FrameObjStep

SpecObj == InitObj /\ [][NextObj]_vars

FrameAVStep == \E shape \in AVShapes, d \in Draws : FrameAV(shape, d.rnd, d.sn)

FrameAV2Step == \E levels \in AV2Shapes, d \in Draws : FrameAV2(levels, d.rnd, d.sn)

InitAV == InitOf("AV")

NextAV ==
    \/ HandlePlayStep
    \/ InitResumeResolveStep
    \/ InitResumeRejectStep
    \/ PlayResolveStep
    \/ PlayRejectStep
    \/ OnEnded
    \/ ExternalPause
    \/ FrameAVStep

SpecAV == InitAV /\ [][NextAV]_vars

InitAV2 == InitOf("AV2")

NextAV2 ==
    \/ HandlePlayStep
    \/ InitResumeResolveStep
    \/ InitResumeRejectStep
    \/ PlayResolveStep
    \/ PlayRejectStep
    \/ OnEnded
    \/ ExternalPause
    \/ FrameAV2Step

SpecAV2 == InitAV2 /\ [][NextAV2]_vars

\* The two components with the simple hit detector.
InitSimple == InitOf("AV") \/ InitOf("AV2")

NextSimple ==
    \/ HandlePlayStep
    \/ InitResumeResolveStep
    \/ InitResumeRejectStep
    \/ PlayResolveStep
    \/ PlayRejectStep
    \/ OnEnded
    \/ ExternalPause
    \/ FrameAVStep
    \/ FrameAV2Step

SpecSimple == InitSimple /\ [][NextSimple]_vars

\* The three components side by side: the mounted one is chosen at Init.
Init == \E v \in Variants : InitOf(v)

Next ==
    \/ LoadResolve
    \/ LoadReject
    \/ HandlePlayStep
    \/ InitResumeResolveStep
    \/ InitResumeRejectStep
    \/ PlayResolveStep
    \/ PlayRejectStep
    \/ OnEnded
    \/ ExternalPause
    \/ FrameObjStep
    \/ FrameAVStep
    \/ FrameAV2Step

Spec == Init /\ [][Next]_vars

\* ------------------------------------------------- overlapping play clicks
\* The head variant with a second (third, ..) click on the play button while
\* earlier handlePlay invocations wait at their awaits; no animation frame
\* runs in between.
PlayCalls == 1 .. (MaxCalls + 1)

InitOverlap == MountedWith("Obj", PlayCalls, CountingHist) /\ frame = FrameInit

NextOverlap ==
    \/ LoadResolve
    \/ LoadReject
    \/ \E c \in PlayCalls, ctorOk \in BOOLEAN, ctxState \in {"suspended", "running"},
          srcOk \in BOOLEAN : HandlePlay(c, ctorOk, ctxState, srcOk)
    \/ \E c \in PlayCalls, srcOk \in BOOLEAN : InitResumeResolve(c, srcOk)
    \/ \E c \in PlayCalls : InitResumeReject(c)
    \/ \E c \in PlayCalls : PlayResolve(c)
    \/ \E c \in PlayCalls : PlayReject(c)
    \/ OnEnded

SpecOverlap == InitOverlap /\ [][NextOverlap]_vars

\* ------------------------------------- the earlier three-band component
\* src/unnamed/part_001: the component AudioVisualizer2 grew out of.  It has
\* the same analyzer, handlePlay and frame loop, keeps no isPlayingRef, and
\* its camera controller holds a spherical position (rotationY stands for
\* spherical.theta, distance for spherical.radius).

\* BASS_CONFIG of part_001; radiusMultiplier and radiusPower are those of
\* AudioVisualizer2, so AV2Radius computes this component's radius too.
Part1Config ==
    [bassIntensity |-> 700, midIntensity |-> 600, highIntensity |-> 600,
     radiusMultiplier |-> 16, radiusPower |-> 10, particleScaleMax |-> 2,
     roundnessMultiplier |-> 8, lightIntensityMultiplier |-> 6,
     rotationSpeedMax |-> 16, enableColorShift |-> TRUE]

\* The isPlaying binding animate closes over.  animate is created once, by
\* the effect of the first render (dependency list [], line 951), and
\* re-schedules itself; that render's isPlaying is the initial state of
\* useState(false) (line 238).  setIsPlaying makes later renders bind new
\* constants, which this closure never reads.
Part1ClosureIsPlaying == FALSE

\* The condition of "Audio processing" (lines 628-633): analyzer &&
\* isPlaying && audioRef.current && !audioRef.current.paused
Part1AudioBranch(a) == analyzer.exists /\ Part1ClosureIsPlaying /\ ~a.paused

\* bassAvg, midAvg and highAvg (lines 660-691): the noise term is scaled by
\* the band's intensity, not by the average.
Part1Bands(data, sn) ==
    [bass |-> BandAvg(data, 0, AV2Ends.bass, Part1Config.bassIntensity)
                + Mul(Mul(sn, 50), Part1Config.bassIntensity),
     mid |-> BandAvg(data, AV2Ends.bass, AV2Ends.mid, Part1Config.midIntensity)
                + Mul(Mul(sn, 50), Part1Config.midIntensity),
     high |-> BandAvg(data, AV2Ends.mid, Cap, Part1Config.highIntensity)
                + Mul(Mul(sn, 50), Part1Config.highIntensity)]

\* CameraController.update() of part_001 (lines 70-78): auto-rotate theta by
\* autoRotateSpeed * 0.005; the radius is only changed by the wheel.
Part1ControlsUpdate(c) == [c EXCEPT !.rotationY = @ + Mul(c.autoRotateSpeed, 5)]

\* The audio-processing branch of part_001's animate (lines 634-914).
Part1AudioFrame(t, a1, levels, rnd, sn) ==
    LET time == a1.currentTime
        data == AV2ByteData(levels)
        nb == Part1Bands(data, sn)
        bassHit == nb.bass > 600 /\ anim.previousBassAvg < 500
        hitTime == IF bassHit THEN DateNow(t) ELSE anim.bassHitTime
        avgDuration == AvgDuration(sn)
        th == AV2Thresholds(VisibleWindow(time, avgDuration, (3 * PPM) \div 10))
        energy == (nb.bass * 500 + nb.mid * 300 + nb.high * 200) \div One
        kick == IF DateNow(t) - hitTime < 500 THEN (rnd - 500) * 3 ELSE 0
        rotSpeed == 2000 + nb.bass * Part1Config.rotationSpeedMax + Mul(sn, 500) + kick
    IN /\ anim' = [anim EXCEPT !.time = time, !.previousBassAvg = nb.bass,
                              !.bassHitTime = hitTime]
       /\ controls' = [Part1ControlsUpdate(controls) EXCEPT !.autoRotateSpeed = rotSpeed]
       /\ radiusArray' = [i \in Points |->
                             AV2Radius(i, AV2FreqValue(i, time, avgDuration, th, data, nb,
                                                       bassHit, rnd),
                                       time, avgDuration, th, nb, bassHit, rnd, sn)]
       /\ uniforms' = AVUniforms(Part1Config, nb.bass, energy, bassHit, rnd, sn)
       /\ debugInfo' = IF frameCount' % 30 = 0 THEN "Stats" ELSE debugInfo
       /\ frame' = [branch |-> "audio", prevBranch |-> frame.branch,
                    input |-> <<levels, rnd, sn>>,
                    isBassHit |-> bassHit, dateNow |-> DateNow(t),
                    spawned |-> 0, poolFull |-> FALSE, shouldSpawn |-> FALSE,
                    rawSubBass |-> 0, rawLowBass |-> 0,
                    subBass |-> nb.bass, rendered |-> TRUE]
       /\ hist' = [hist EXCEPT
                     !.lastHitDate = IF bassHit THEN DateNow(t) ELSE @,
                     !.hitGap = IF bassHit /\ hist.lastHitDate >= 0
                                THEN DateNow(t) - hist.lastHitDate ELSE @]

\* "Default animation when not playing" (lines 915-920): every radius 128.
Part1IdleFrame(t, a1) ==
    /\ anim' = [anim EXCEPT !.time = a1.currentTime]
    /\ controls' = Part1ControlsUpdate(controls)
    /\ radiusArray' = [i \in Points |-> 128 * One]
    /\ UNCHANGED <<uniforms, debugInfo, hist>>
    /\ frame' = [FrameInit EXCEPT !.branch = "idle", !.prevBranch = frame.branch,
                                  !.dateNow = DateNow(t), !.rendered = TRUE]

\* One requestAnimationFrame callback of part_001: animate (lines 609-923).
FramePart1(levels, rnd, sn) ==
    /\ variant = "Part1"
    /\ ticks < MaxFrames
    /\ ticks' = ticks + 1
    /\ now' = now + FrameMs
    /\ audio' = AudioAfter(audio, FrameMs)
    /\ frameCount' = frameCount + 1
    /\ UNCHANGED <<variant, sceneRef, loadState, analyzer, isPlaying, isPlayingRef,
                   showPlayButton, pc, shootingStars, chroma, shakeArray,
                   rotationArray, panArray>>
    /\ IF ~sceneRef
       THEN /\ frame' = [FrameInit EXCEPT !.branch = "early",
                                          !.prevBranch = frame.branch,
                                          !.dateNow = DateNow(now')]
            /\ UNCHANGED <<anim, controls, radiusArray, uniforms, debugInfo, hist>>
       ELSE IF Part1AudioBranch(audio')
       THEN Part1AudioFrame(now', audio', levels, rnd, sn)
       ELSE Part1IdleFrame(now', audio')

\* await audioRef.current.play() resolves in part_001's handlePlay (lines
\* 969-977): the state setters and the camera radius; there is no ref to set.
Part1PlayResolve(c) ==
    /\ pc[c] = "play"
    /\ audio' = [audio EXCEPT !.paused = FALSE, !.ended = FALSE]
    /\ isPlaying' = TRUE
    /\ showPlayButton' = FALSE
    /\ debugInfo' = "Playing..."
    /\ controls' = [controls EXCEPT !.distance = 1000 * One]
    /\ pc' = [pc EXCEPT ![c] = "idle"]
    /\ hist' = [hist EXCEPT !.playsResolved = TRUE]
    /\ UNCHANGED <<variant, sceneRef, loadState, analyzer, isPlayingRef>>
    /\ UNCHANGED <<now, ticks, frameCount, anim, shootingStars, radiusArray, shakeArray,
                   rotationArray, panArray, uniforms, chroma, frame>>

\* One notch of the mouse wheel away from the scene: e.deltaY.
Part1WheelDeltas == {600}

\* CameraController.onWheel of part_001 (lines 34-41): the radius moves by
\* deltaY * 0.5 and is clamped to [minDistance, maxDistance] = [50, 1500].
Part1OnWheel(deltaY) ==
    /\ variant = "Part1"
    /\ controls' = [controls EXCEPT
                      !.distance = Max(50 * One, Min(1500 * One, @ + deltaY * (One \div 2)))]
    /\ UNCHANGED <<variant, sceneRef, loadState, analyzer, audio, isPlaying, isPlayingRef,
                   showPlayButton, debugInfo, pc, hist>>
    /\ UNCHANGED <<now, ticks, frameCount, anim, shootingStars, radiusArray, shakeArray,
                   rotationArray, panArray, uniforms, chroma, frame>>

\* part_001 after mount: as the other three-band component, with the
\* controller's autoRotateSpeed = 2.0 (line 9).
InitPart1 ==
    \E c0 \in {[ControlsInit("Part1") EXCEPT !.autoRotateSpeed = 2 * One]} :
        /\ variant = "Part1"
        /\ sceneRef = TRUE
        /\ loadState = "ready"
        /\ analyzer = NoAnalyzer
        /\ audio = [paused |-> TRUE, ended |-> FALSE, currentTime |-> 0]
        /\ isPlaying = FALSE
        /\ isPlayingRef = FALSE
        /\ showPlayButton = TRUE
        /\ debugInfo = "Ready to play"
        /\ pc = [c \in Calls |-> "idle"]
        /\ now = 0
        /\ ticks = 0
        /\ frameCount = 0
        /\ anim = AnimInit
        /\ controls = c0
        /\ shootingStars = [s \in Slots |-> NewStar(s)]
        /\ radiusArray = ZeroArray
        /\ shakeArray = ZeroShake
        /\ rotationArray = ZeroArray
        /\ panArray = ZeroArray
        /\ uniforms = UniformsInit
        /\ chroma = [uChromaticStrength |-> 0, uChromaticDirection |-> <<One, 0>>]
        /\ frame = FrameInit
        /\ hist = HistInit

NextPart1 ==
    \/ HandlePlayStep
    \/ InitResumeResolveStep
    \/ InitResumeRejectStep
    \/ \E c \in Calls : Part1PlayResolve(c)
    \/ PlayRejectStep
    \/ OnEnded
    \/ ExternalPause
    \/ \E levels \in AV2Shapes, d \in Draws : FramePart1(levels, d.rnd, d.sn)
    \/ \E deltaY \in Part1WheelDeltas : Part1OnWheel(deltaY)

SpecPart1 == InitPart1 /\ [][NextPart1]_vars

\* ------------------------------------------- the star pool over many frames
\* The head variant while it plays, followed over any number of frames: a
\* frame's clock value and frame time are drawn instead of counted, and only
\* the star steps of animate are taken (the head-formation sample and spawn
\* block, lines 1325-1421, and the update, lines 1769-1819, or the
\* deactivation of the idle branch, lines 1855-1864).

\* audio.currentTime of a frame: just after the fastest particle formed the
\* head, and later.
PoolTimes == {36, MaxTime \div 2}

\* The head variant after the mesh loaded, play was clicked and play()
\* resolved on a running context.
InitPool ==
    \E h \in {[HistInit EXCEPT !.playsResolved = TRUE]},
       c0 \in {[ControlsInit("Obj") EXCEPT !.distance = 10000 * One,
                                           !.targetDistance = 1500 * One]} :
        /\ variant = "Obj"
        /\ sceneRef = TRUE
        /\ loadState = "ready"
        /\ analyzer = [exists |-> TRUE, ctx |-> "running", source |-> TRUE,
                       isConnected |-> TRUE]
        /\ audio = [paused |-> FALSE, ended |-> FALSE, currentTime |-> 0]
        /\ isPlaying = TRUE
        /\ isPlayingRef = TRUE
        /\ showPlayButton = FALSE
        /\ debugInfo = "Playing..."
        /\ pc = [c \in Calls |-> "idle"]
        /\ now = 0
        /\ ticks = 0
        /\ frameCount = 0
        /\ anim = AnimInit
        /\ controls = c0
        /\ shootingStars = [s \in Slots |-> NewStar(s)]
        /\ radiusArray = ZeroArray
        /\ shakeArray = ZeroShake
        /\ rotationArray = ZeroArray
        /\ panArray = ZeroArray
        /\ uniforms = UniformsInit
        /\ chroma = [uChromaticStrength |-> 0, uChromaticDirection |-> <<One, 0>>]
        /\ frame = FrameInit
        /\ hist = h

\* The star steps of one animate callback at clock value time, deltaTime
\* after the previous callback.
PoolFrame(time, deltaTime, shape, rnd, sn) ==
    /\ variant = "Obj" /\ sceneRef
    /\ IF AudioBranch(audio)
       THEN LET nb == ObjNoisy(ObjBands(shape), sn)
                headProgress == HeadFormationProgress(time, rnd)
                a1 == [anim EXCEPT !.time = time, !.headFormationProgress = headProgress]
                stars1 == SpawnStep(shootingStars, a1, nb, time, headProgress, rnd)
            IN /\ anim' = [a1 EXCEPT !.lastStarSpawnTime =
                                        IF stars1 # shootingStars THEN time ELSE @]
               /\ shootingStars' = [s \in Slots |-> UpdateStar(stars1[s], deltaTime)]
               /\ frame' = [FrameInit EXCEPT !.branch = "audio", !.rendered = TRUE]
       ELSE /\ anim' = [anim EXCEPT !.headFormationProgress = 0, !.lastStarSpawnTime = 0]
            /\ shootingStars' = [s \in Slots |-> DeactivateStar(shootingStars[s])]
            /\ frame' = [FrameInit EXCEPT !.branch = "idle", !.rendered = TRUE]
    /\ UNCHANGED <<variant, sceneRef, loadState, analyzer, audio, isPlaying, isPlayingRef,
                   showPlayButton, debugInfo, pc, now, ticks, frameCount, controls,
                   uniforms, chroma, hist, radiusArray, shakeArray, rotationArray,
                   panArray>>

PoolFrameStep ==
    \E time \in PoolTimes, deltaTime \in {FrameMs, 2 * FrameMs}, shape \in Shapes,
       d \in Draws : PoolFrame(time, deltaTime, shape, d.rnd, d.sn)

NextPool ==
    \/ PoolFrameStep
    \/ OnEnded
    \/ ExternalPause

\* requestAnimationFrame(animate) is the first statement of animate: a frame
\* is always scheduled, so frames keep being processed.
SpecPool == InitPool /\ [][NextPool]_vars /\ WF_vars(PoolFrameStep)

\* ------------------------------------- the camera controller's DOM listeners
\* Events dispatched on the canvas in one behaviour.
MaxEvents == 3

\* e.deltaY of a wheel event, in pixels.
ObjWheelDeltas == {0 - 600, 600}

\* e.clientX of a mouse event, in pixels.
ClientXs == {0, 100}

\* method.bind(this): a new function object at every call; k numbers the
\* function objects the controller has created.
Bind(method, k) == [method |-> method, id |-> k]

\* The (type, listener) pairs that the constructor (lines 170-174) and
\* dispose (lines 222-237) pass to the element, in source order; the first
\* bound function gets the identity k + 1.
BoundListeners(k) ==
    {[type |-> "wheel", fn |-> Bind("onWheel", k + 1)],
     [type |-> "mousedown", fn |-> Bind("onMouseDown", k + 2)],
     [type |-> "mousemove", fn |-> Bind("onMouseMove", k + 3)],
     [type |-> "mouseup", fn |-> Bind("onMouseUp", k + 4)],
     [type |-> "mouseleave", fn |-> Bind("onMouseUp", k + 5)]}

\* new CameraController(camera, renderer.domElement) of the head variant with
\* the fields its event handlers use; listeners is the listener list of
\* domElement, bound the number of function objects made by bind.
ObjControlsWithListeners ==
    ControlsInit("Obj")
        @@ [isDragging |-> FALSE, previousMouseX |-> 0, minDistance |-> 50 * One,
            maxDistance |-> 2000 * One, listeners |-> BoundListeners(0), bound |-> 5]

\* CameraController.dispose() (lines 222-237): removeEventListener drops a
\* pair only when type and function object are both the registered ones.
Dispose(c) ==
    [c EXCEPT !.listeners = @ \ BoundListeners(c.bound), !.bound = @ + 5]

\* The handlers (lines 177-203) on an event e.
CallHandler(c, method, e) ==
    CASE method = "onWheel" ->
             [c EXCEPT !.targetDistance =
                  Max(c.minDistance, Min(c.maxDistance, @ + e.deltaY * (One \div 2)))]
      [] method = "onMouseDown" ->
             [c EXCEPT !.isDragging = TRUE, !.previousMouseX = e.clientX]
      [] method = "onMouseMove" ->
             IF ~c.isDragging THEN c
             ELSE [c EXCEPT !.rotationY = @ - (e.clientX - c.previousMouseX) * (One \div 100),
                            !.previousMouseX = e.clientX]
      [] method = "onMouseUp" -> [c EXCEPT !.isDragging = FALSE]

\* The component without the audio side: mounted, mesh still loading.
\* hist.disposed: dispose() has returned; hist.unmounted: the effect's
\* cleanup has run; hist.changedAfterDispose: a handler changed the
\* controller after dispose() had returned.
InitListeners ==
    /\ variant = "Obj"
    /\ sceneRef = FALSE
    /\ loadState = "loading"
    /\ analyzer = NoAnalyzer
    /\ audio = [paused |-> TRUE, ended |-> FALSE, currentTime |-> 0]
    /\ isPlaying = FALSE
    /\ isPlayingRef = FALSE
    /\ showPlayButton = TRUE
    /\ debugInfo = "Loading..."
    /\ pc = [c \in Calls |-> "idle"]
    /\ now = 0
    /\ ticks = 0
    /\ frameCount = 0
    /\ anim = AnimInit
    /\ controls = ObjControlsWithListeners
    /\ shootingStars = [s \in Slots |-> NewStar(s)]
    /\ radiusArray = ZeroArray
    /\ shakeArray = ZeroShake
    /\ rotationArray = ZeroArray
    /\ panArray = ZeroArray
    /\ uniforms = UniformsInit
    /\ chroma = [uChromaticStrength |-> 0, uChromaticDirection |-> <<One, 0>>]
    /\ frame = FrameInit
    /\ hist = HistInit @@ [events |-> 0, disposed |-> FALSE, unmounted |-> FALSE,
                           changedAfterDispose |-> FALSE]

\* domElement dispatches an event of the given type: every listener
\* registered for the type is called (the controller registers at most one).
DispatchEvent(type, e) ==
    /\ hist.events < MaxEvents
    /\ LET fns == {l.fn : l \in {r \in controls.listeners : r.type = type}}
           c1 == IF fns = {} THEN controls
                 ELSE CallHandler(controls, (CHOOSE f \in fns : TRUE).method, e)
       IN /\ controls' = c1
          /\ hist' = [hist EXCEPT !.events = @ + 1,
                                  !.changedAfterDispose = @ \/ (hist.disposed /\ c1 # controls)]
    /\ UNCHANGED <<variant, sceneRef, loadState, analyzer, audio, isPlaying, isPlayingRef,
                   showPlayButton, debugInfo, pc, now, ticks, frameCount, anim,
                   shootingStars, radiusArray, shakeArray, rotationArray, panArray,
                   uniforms, chroma, frame>>

Wheel == \E d \in ObjWheelDeltas : DispatchEvent("wheel", [deltaY |-> d])

MouseDown == \E x \in ClientXs : DispatchEvent("mousedown", [clientX |-> x])

MouseMove == \E x \in ClientXs : DispatchEvent("mousemove", [clientX |-> x])

MouseUp == DispatchEvent("mouseup", [clientX |-> 0])

MouseLeave == DispatchEvent("mouseleave", [clientX |-> 0])

\* The cleanup of the mount effect (lines 1924-1943): the controller is
\* disposed only when sceneRef.current is set.
EffectCleanup ==
    /\ ~hist.unmounted
    /\ controls' = IF sceneRef THEN Dispose(controls) ELSE controls
    /\ hist' = [hist EXCEPT !.unmounted = TRUE, !.disposed = sceneRef]
    /\ UNCHANGED <<variant, sceneRef, loadState, analyzer, audio, isPlaying, isPlayingRef,
                   showPlayButton, debugInfo, pc, now, ticks, frameCount, anim,
                   shootingStars, radiusArray, shakeArray, rotationArray, panArray,
                   uniforms, chroma, frame>>

NextListeners ==
    \/ LoadResolve
    \/ Wheel
    \/ MouseDown
    \/ MouseMove
    \/ MouseUp
    \/ MouseLeave
    \/ EffectCleanup

SpecListeners == InitListeners /\ [][NextListeners]_vars

\* ------------------------------------------------ the functions on their own
\* The helpers of animate applied to arguments of their whole domain, not
\* only to the ones MaxFrames frames produce: frame holds the call, the other
\* variables stay as mounted.
FnTimes == 0 .. MaxTime

FnNoise == {0 - One, 0, One}

\* maxVisibleProgress of the fallback: 0.5 in the head variant and
\* AudioVisualizer, 0.3 in AudioVisualizer2
FallbackMax(v) == IF v = "AV2" THEN (3 * PPM) \div 10 ELSE PPM \div 2

WindowCalls ==
    { [branch |-> "call", fn |-> "visibleWindow", v |-> v, time |-> t, sn |-> sn]
        : v \in Variants, t \in FnTimes, sn \in FnNoise }

\* One audio frame's array computation at any playback time, on the arrays
\* and the animation state as mounted.
ArrayCalls ==
    { [branch |-> "call", fn |-> "arrays", v |-> "Obj", time |-> t, sn |-> d.sn,
       rnd |-> d.rnd, shape |-> shape]
        : t \in FnTimes \ {0}, d \in Draws, shape \in Shapes }

\* Byte spectra (Uint8Array(binCount)): silence, full scale, a ramp and a
\* single loud bin.
FnSpectra ==
    { [i \in Bins |-> 0], [i \in Bins |-> 255], [i \in Bins |-> (i * 37) % 256],
      [i \in Bins |-> IF i = 1 THEN 255 ELSE 0] }

\* A band [lo, hi) of the spectrum with its intensity; hi <= lo is the empty
\* band that Math.floor(hz / binHz) gives at a coarse bin width.
BandCalls ==
    { [branch |-> "call", fn |-> "bandAvg", data |-> d, lo |-> lo, hi |-> hi,
       intensity |-> k]
        : d \in FnSpectra, lo \in 0 .. Cap, hi \in 0 .. Cap,
          k \in {ObjConfig.subBassIntensity, ObjConfig.highIntensity} }

\* Control values: numbers that SignificandBits bits hold exactly.
FnControls == {0, 3 * FOne, 10 * FOne, 13 * FOne, 0 - 7 * FOne}

FnWeights == {0, FOne \div 2, FOne}

\* (x, y, z) of a control point
Vec3Of(p) == <<p, 0 - p, 2 * p>>

SplineCalls ==
    { [branch |-> "call", fn |-> fn, p |-> <<p0, p1, p2, p3>>, t |-> t]
        : fn \in {"catmullRom", "catmullRomVec3", "spline"},
          p0 \in FnControls, p1 \in FnControls, p2 \in FnControls, p3 \in FnControls,
          t \in FnWeights }

\* Snapshots for the spawn conditions: the two of Shapes and one whose only
\* energy is a loud high-mid band (strong enough alone, too weak combined).
StarShapes ==
    Shapes \cup { [d |-> <<0, 0, 0, 230, 0>>, l |-> <<0, 0, 0, 230, 0>>,
                   r |-> <<0, 0, 0, 230, 0>>] }

\* The spawn step of one audio frame at any playback time; last is
\* anim.lastStarSpawnTime, the time of the frame that spawned last: the
\* initial 0, or the middle of the time range, which puts the calls of the
\* next milliseconds inside the spawn interval.
SpawnCalls ==
    { [branch |-> "call", fn |-> "spawn", v |-> "Obj", time |-> t, sn |-> d.sn,
       rnd |-> d.rnd, shape |-> shape, last |-> last]
        : t \in FnTimes \ {0}, d \in Draws, shape \in StarShapes,
          last \in {0, MaxTime \div 2} }

\* Byte levels of a band: silent, half scale, full scale.
ModeLevels == {0, 128, 255}

\* The mode selection of one audio frame for every combination of band
\* levels; prev is anim.previousBassAvg, the sub-bass average of the frame
\* before: silence, or the largest average the configuration produces.
ModeCalls ==
    { [branch |-> "call", fn |-> "mode", v |-> "Obj", sn |-> d.sn, rnd |-> d.rnd,
       shape |-> [d |-> lv, l |-> lv, r |-> lv], prev |-> prev]
        : lv \in [1 .. 5 -> ModeLevels], d \in Draws,
          prev \in {0, ObjConfig.subBassIntensity} }

\* Number of particles (77777 in the code).
particleCount == 5

\* The head-target sampling for every mesh of 1 .. particleCount faces.
SampleCalls ==
    { [branch |-> "call", fn |-> "sample", v |-> "Obj", sn |-> d.sn, rnd |-> d.rnd,
       totalFaces |-> n]
        : n \in 1 .. particleCount, d \in Draws }

FnCalls ==
    WindowCalls \cup ArrayCalls \cup BandCalls \cup SplineCalls \cup SpawnCalls
        \cup ModeCalls \cup SampleCalls

InitFn == Mounted("Obj") /\ frame \in FnCalls

FnScalars == <<variant, sceneRef, loadState, analyzer, audio, isPlaying, isPlayingRef,
               showPlayButton, debugInfo, pc, now, ticks, frameCount, anim, controls,
               shootingStars, uniforms, chroma, hist>>

FnRest == <<FnScalars, radiusArray, shakeArray, rotationArray, panArray>>

\* minVisibleProgress / maxVisibleProgress of one frame
VisibleWindowStep ==
    /\ frame.branch = "call" /\ frame.fn = "visibleWindow"
    /\ frame' = [frame EXCEPT !.branch = "return"] @@
                 [out |-> VisibleWindow(frame.time, AvgDuration(frame.sn),
                                        FallbackMax(frame.v))]
    /\ UNCHANGED FnRest

\* The clear, rotation, pass and radius loops of one audio frame of the head
\* variant, written to the four arrays.
ObjArraysStep ==
    /\ frame.branch = "call" /\ frame.fn = "arrays"
    /\ LET arr == ObjArrays([radius |-> radiusArray, shake |-> shakeArray,
                             rotation |-> rotationArray, pan |-> panArray],
                            anim, frame.time,
                            ObjIsBassHit(ObjBands(frame.shape).subBass, anim,
                                         DateNow(FrameMs)),
                            frame.shape, frame.rnd, frame.sn)
       IN /\ radiusArray' = arr.radius
          /\ shakeArray' = arr.shake
          /\ rotationArray' = arr.rotation
          /\ panArray' = arr.pan
    /\ frame' = [frame EXCEPT !.branch = "return"]
    /\ UNCHANGED FnScalars

\* One band average before noise
BandAvgStep ==
    /\ frame.branch = "call" /\ frame.fn = "bandAvg"
    /\ frame' = [frame EXCEPT !.branch = "return"] @@
                 [out |-> BandAvg(frame.data, frame.lo, frame.hi, frame.intensity)]
    /\ UNCHANGED FnRest

catmullRomStep ==
    /\ frame.branch = "call" /\ frame.fn = "catmullRom"
    /\ frame' = [frame EXCEPT !.branch = "return"] @@
                 [out |-> catmullRom(frame.p[1], frame.p[2], frame.p[3], frame.p[4],
                                     frame.t)]
    /\ UNCHANGED FnRest

\* roundness is uRoundness as mounted, (2, 2)
catmullRomVec3Step ==
    /\ frame.branch = "call" /\ frame.fn = "catmullRomVec3"
    /\ frame' = [frame EXCEPT !.branch = "return"] @@
                 [out |-> catmullRomVec3(Vec3Of(frame.p[1]), Vec3Of(frame.p[2]),
                                         Vec3Of(frame.p[3]), Vec3Of(frame.p[4]),
                                         frame.t, <<2 * FOne, 2 * FOne>>)]
    /\ UNCHANGED FnRest

\* The spline through the control values frame.p at progress frame.t
SplineStep ==
    /\ frame.branch = "call" /\ frame.fn = "spline"
    /\ frame' = [frame EXCEPT !.branch = "return"] @@
                 [out |-> SplineAt(frame.p, frame.t)]
    /\ UNCHANGED FnRest

\* The head-formation sample and the "SHOOTING STAR LOGIC" block of one audio
\* frame (lines 1325-1421) on the pool as mounted.
SpawnStepCall ==
    /\ frame.branch = "call" /\ frame.fn = "spawn"
    /\ frame.last <= frame.time
    /\ LET a == [anim EXCEPT !.lastStarSpawnTime = frame.last, !.time = frame.time]
           nb == ObjNoisy(ObjBands(frame.shape), frame.sn)
           headProgress == HeadFormationProgress(frame.time, frame.rnd)
           a1 == [a EXCEPT !.headFormationProgress = headProgress]
           stars1 == SpawnStep(shootingStars, a1, nb, frame.time, headProgress, frame.rnd)
       IN /\ shootingStars' = stars1
          /\ anim' = [a1 EXCEPT !.lastStarSpawnTime =
                                   IF stars1 # shootingStars THEN frame.time ELSE @]
          /\ frame' = [frame EXCEPT !.branch = "return"] @@ [nb |-> nb]
    /\ UNCHANGED <<variant, sceneRef, loadState, analyzer, audio, isPlaying, isPlayingRef,
                   showPlayButton, debugInfo, pc, now, ticks, frameCount, controls,
                   uniforms, chroma, hist, radiusArray, shakeArray, rotationArray,
                   panArray>>

\* Bass hit detection and the chromatic part of one audio frame (lines
\* 1176-1291) on the animation state as mounted but for previousBassAvg.
ChromaticStepCall ==
    /\ frame.branch = "call" /\ frame.fn = "mode"
    /\ LET b0 == ObjBands(frame.shape)
           a == [anim EXCEPT !.previousBassAvg = frame.prev]
           isBassHit == ObjIsBassHit(b0.subBass, a, DateNow(FrameMs))
           b == [b0 EXCEPT !.subBass = Max(@, a.subBassPeak)]
       IN /\ anim' = ChromaticStep([a EXCEPT !.previousBassAvg = b0.subBass], b,
                                   isBassHit, FrameMs, frame.rnd, frame.sn)
          /\ frame' = [frame EXCEPT !.branch = "return"] @@ [isBassHit |-> isBassHit]
    /\ UNCHANGED <<variant, sceneRef, loadState, analyzer, audio, isPlaying, isPlayingRef,
                   showPlayButton, debugInfo, pc, now, ticks, frameCount, controls,
                   shootingStars, uniforms, chroma, hist, radiusArray, shakeArray,
                   rotationArray, panArray>>

\* Random barycentric coordinates of one sample (lines 624-631): r1 and r2
\* are drawn and folded back into the triangle, r3 is the remainder.
Barycentric(rnd) ==
    LET fold == rnd + rnd > One
        r1 == IF fold THEN One - rnd ELSE rnd
        r2 == IF fold THEN One - rnd ELSE rnd
    IN [r1 |-> r1, r2 |-> r2, r3 |-> One - r1 - r2]

\* objData.faces.forEach (lines 611-652) from face faceIndex on: a face is
\* skipped once headPoints is full, otherwise it pushes
\* min(pointsPerFace, particleCount - headPoints.length) samples.
RECURSIVE SampleFaces(_, _, _, _, _)
SampleFaces(faceIndex, totalFaces, pointsPerFace, headPoints, rnd) ==
    IF faceIndex > totalFaces THEN headPoints
    ELSE IF Len(headPoints) >= particleCount
         THEN SampleFaces(faceIndex + 1, totalFaces, pointsPerFace, headPoints, rnd)
         ELSE LET numSamples == Min(pointsPerFace, particleCount - Len(headPoints))
                  pushed == [i \in 1 .. numSamples |->
                                [face |-> faceIndex, w |-> Barycentric(rnd)]]
              IN SampleFaces(faceIndex + 1, totalFaces, pointsPerFace,
                             headPoints \o pushed, rnd)

\* The head targets of a mesh of totalFaces faces (lines 606-652);
\* pointsPerFace is Math.ceil(particleCount / totalFaces).
HeadPoints(totalFaces, rnd) ==
    LET pointsPerFace == (particleCount + totalFaces - 1) \div totalFaces
    IN SampleFaces(1, totalFaces, pointsPerFace, << >>, rnd)

HeadPointsStepCall ==
    /\ frame.branch = "call" /\ frame.fn = "sample"
    /\ frame' = [frame EXCEPT !.branch = "return"]
                    @@ [headPoints |-> HeadPoints(frame.totalFaces, frame.rnd)]
    /\ UNCHANGED <<variant, sceneRef, loadState, analyzer, audio, isPlaying, isPlayingRef,
                   showPlayButton, debugInfo, pc, now, ticks, frameCount, anim, controls,
                   shootingStars, uniforms, chroma, hist, radiusArray, shakeArray,
                   rotationArray, panArray>>

NextFn ==
    \/ HeadPointsStepCall
    \/ ChromaticStepCall
    \/ SpawnStepCall
    \/ VisibleWindowStep
    \/ ObjArraysStep
    \/ BandAvgStep
    \/ catmullRomStep
    \/ catmullRomVec3Step
    \/ SplineStep

SpecFn == InitFn /\ [][NextFn]_vars

\* --------------------------------------------------------------- properties
\* A step that is one animate callback.
IsFrame == ticks' = ticks + 1

ActiveStars(stars) == {s \in Slots : stars[s].active}

AllZero ==
    /\ \A i \in Points : radiusArray[i] = 0 /\ rotationArray[i] = 0 /\ panArray[i] = 0
    /\ \A i \in Points : shakeArray[i] = <<0, 0, 0>>

\* C1: in the head variant two accepted sub-bass hits are never less than
\* 150 ms apart: the gap between an accepted hit and the accepted hit before
\* it (hist.hitGap, -1 while there is no second hit) is at least 150 ms.
C1_HitsAtLeast150msApart ==
    variant = "Obj" => (hist.hitGap = 0 - 1 \/ hist.hitGap >= 150)

\* Two hits accepted on consecutive callbacks, FrameMs apart.
C1_TwoHitsOneFrameApart ==
    /\ variant = "Obj"
    /\ frame.isBassHit
    /\ hist.hitGap = FrameMs

\* C2: the number of active stars never exceeds maxActiveStars, and a frame
\* of the head variant's audio branch that starts with every pool entry
\* active allocates nothing and overwrites nothing: no slot is claimed, the
\* last spawn time stays, and every star is exactly its old self aged by the
\* frame's deltaTime.
C2_FullPoolSpawnChangesNothing ==
    [][ /\ Cardinality(ActiveStars(shootingStars')) <= MaxActiveStars
        /\ DOMAIN shootingStars' = Slots
        /\ (/\ variant = "Obj"
            /\ IsFrame
            /\ frame'.branch = "audio"
            /\ ActiveStars(shootingStars) = Slots)
           => /\ frame'.spawned = 0
              /\ anim'.lastStarSpawnTime = anim.lastStarSpawnTime
              /\ \A s \in Slots :
                    shootingStars'[s] = UpdateStar(shootingStars[s], now' - anim.lastFrameTime)
      ]_vars

\* A frame that met every spawn condition while the pool was full.
C2_SpawnAttemptOnFullPool ==
    /\ variant = "Obj"
    /\ frame.branch = "audio"
    /\ frame.poolFull
    /\ frame.shouldSpawn

\* An animate callback of AudioVisualizer that ran the audio branch.
IsAVAudioFrame == variant = "AV" /\ IsFrame /\ frame'.branch = "audio"

\* C3 as stated: after every envelope update of AudioVisualizer in which the
\* raw band average exceeds the smoothed value the previous frame left, the
\* smoothed value equals the raw value, for sub-bass and for low-bass.
C3_SnapWhenRawAbovePreviousSmoothed ==
    [][ IsAVAudioFrame
        => /\ (frame'.rawSubBass > anim.smoothedSubBassAvg
                 => anim'.smoothedSubBassAvg = frame'.rawSubBass)
           /\ (frame'.rawLowBass > anim.smoothedLowBassAvg
                 => anim'.smoothedLowBassAvg = frame'.rawLowBass)
      ]_vars

\* C3 amended: after every envelope update of AudioVisualizer in which the
\* raw band average exceeds the smoothed value as the onset boost leaves it
\* (the previous smoothed value, raised by (raw - previousRaw) * gain and
\* capped at 1.5 when raw rose by more than 0.05; gain 2.0 for sub-bass, 1.5
\* for low-bass), the smoothed value equals the raw value exactly.
C3_SnapWhenRawAboveBoosted ==
    [][ IsAVAudioFrame
        => /\ (frame'.rawSubBass > OnsetBoost(anim.smoothedSubBassAvg, anim.previousSubBassAvg,
                                              frame'.rawSubBass, 2000)
                 => anim'.smoothedSubBassAvg = frame'.rawSubBass)
           /\ (frame'.rawLowBass > OnsetBoost(anim.smoothedLowBassAvg, anim.previousLowBassAvg,
                                              frame'.rawLowBass, 1500)
                 => anim'.smoothedLowBassAvg = frame'.rawLowBass)
           /\ anim'.previousSubBassAvg = frame'.rawSubBass
           /\ anim'.previousLowBassAvg = frame'.rawLowBass
      ]_vars

\* Both envelopes sit exactly on a positive raw value after a fast attack.
C3_Snapped ==
    /\ variant = "AV"
    /\ frame.branch = "audio"
    /\ frame.rawSubBass > 0
    /\ anim.smoothedSubBassAvg = frame.rawSubBass
    /\ frame.rawLowBass > 0
    /\ anim.smoothedLowBassAvg = frame.rawLowBass

\* C4: in the simple hit detector (AudioVisualizer, AudioVisualizer2) a
\* processed frame reports a hit exactly when the current sub-bass value is
\* above 0.6 and the value stored by the previous processed frame is below
\* 0.5, and it stores the current value for the next frame.
C4_HitIsRisingEdge ==
    [][ (variant \in {"AV", "AV2"} /\ IsFrame /\ frame'.branch = "audio")
        => /\ frame'.isBassHit <=> (frame'.subBass > 600 /\ anim.previousBassAvg < 500)
           /\ anim'.previousBassAvg = frame'.subBass
      ]_vars

\* The frame after a hit: the value is still above 0.6 and no hit is reported.
C4_NoSecondHitWhileHigh ==
    /\ variant \in {"AV", "AV2"}
    /\ frame.branch = "audio"
    /\ frame.subBass > 600
    /\ ~frame.isBassHit
    /\ hist.lastHitDate = frame.dateNow - FrameMs

\* C5: in the head variant a frame that runs with playback stopped
\* (isPlayingRef cleared by the ended handler, or the audio element paused)
\* takes the idle branch: after it the radius, shake, rotation and pan arrays
\* are all zero and no shooting star is active.
C5_StoppedFrameIsIdle ==
    [][ (/\ variant = "Obj"
         /\ IsFrame
         /\ sceneRef
         /\ (~isPlayingRef \/ audio.paused))
        => /\ frame'.branch = "idle"
           /\ AllZero'
           /\ ActiveStars(shootingStars') = {}
      ]_vars

\* An idle frame after playback: a star cut off before its lifetime ran out.
C5_StarForceDeactivated ==
    /\ variant = "Obj"
    /\ frame.branch = "idle"
    /\ frame.prevBranch = "audio"
    /\ AllZero
    /\ \E s \in Slots : /\ ~shootingStars[s].active
                         /\ shootingStars[s].age > 0
                         /\ shootingStars[s].age < shootingStars[s].lifetime

\* C6: a frame of the head variant takes the audio-processing branch only
\* after a handlePlay call completed the activation: whenever the last frame
\* ran the audio branch the analyzer's graph is connected and a play() has
\* resolved, and until a play() has resolved every frame leaves the idle
\* output (no audio branch, arrays zero, no star active).
C6_AudioBranchOnlyAfterActivation ==
    variant = "Obj"
    => /\ (frame.branch = "audio"
             => analyzer.exists /\ analyzer.isConnected /\ hist.playsResolved)
       /\ (~hist.playsResolved
             => /\ frame.branch # "audio"
                /\ AllZero
                /\ ActiveStars(shootingStars) = {}
                /\ ~isPlayingRef)

\* An audio-branch frame that wrote a non-zero radius.
C6_AudioFrameRan ==
    /\ variant = "Obj"
    /\ frame.branch = "audio"
    /\ frame.prevBranch = "idle"
    /\ \E i \in Points : radiusArray[i] > 0

FailureStatus == {"Failed to initialize audio", "Error"}

\* A step of handlePlay that reports a failure.
FailureReported ==
    /\ ticks' = ticks
    /\ debugInfo' \in FailureStatus
    /\ (debugInfo' # debugInfo \/ pc' # pc)

\* C7: when a handlePlay of the head variant fails (init resolves to false,
\* the constructor, the resume or play() throws), the step that reports the
\* status string leaves the playing flags and the play button as they were,
\* which is not playing and button visible unless another invocation has
\* started playback meanwhile; the invocation ends (no exception escapes);
\* and the analyzer is left so that a later handlePlay can connect it.
C7_FailureLeavesStoppedAndRetryable ==
    [][ (variant = "Obj" /\ FailureReported)
        => /\ isPlaying' = isPlaying
           /\ isPlayingRef' = isPlayingRef
           /\ showPlayButton' = showPlayButton
           /\ (~isPlayingRef => (~isPlaying' /\ ~isPlayingRef' /\ showPlayButton'))
           /\ \A c \in Calls : pc'[c] # pc[c] => pc'[c] = "idle"
           /\ (analyzer'.source <=> analyzer'.isConnected)
           /\ audio' = audio
      ]_vars

\* Playback running after an earlier handlePlay had failed.
C7_PlayingAfterFailure ==
    /\ variant = "Obj"
    /\ hist.failures = 1
    /\ isPlayingRef
    /\ ~showPlayButton
    /\ debugInfo = "Playing..."

\* C8: once the mesh load of the head variant has rejected, the status
\* reports the error, the scene reference is never set, nothing is rendered
\* and playback never starts; every later frame tick and handlePlay call
\* changes nothing of the component.
C8_LoadFailureDisablesEverything ==
    [][ (variant = "Obj" /\ loadState' = "failed")
        => /\ ~sceneRef'
           /\ debugInfo' = "Error loading model"
           /\ ~frame'.rendered
           /\ frame'.branch \in {"none", "early"}
           /\ ~isPlaying' /\ ~isPlayingRef' /\ audio'.paused
           /\ ~analyzer'.exists
           /\ (loadState = "failed"
                 => UNCHANGED <<sceneRef, loadState, analyzer, audio, isPlaying, isPlayingRef,
                                showPlayButton, debugInfo, pc, frameCount, controls,
                                shootingStars, radiusArray, shakeArray, rotationArray,
                                panArray, uniforms, chroma>>)
      ]_vars

\* After the rejected load a frame tick and a handlePlay call have both run.
C8_TickAndPlayAfterFailedLoad ==
    /\ variant = "Obj"
    /\ loadState = "failed"
    /\ frame.branch = "early"
    /\ hist.ignored

\* C9: whenever a handlePlay of the head variant or of AudioVisualizer starts
\* playback (play() resolves while nothing was playing), the envelope state
\* equals its initial value: nothing of an earlier playback is carried over.
C9_EnvelopeInitialAtStart ==
    [][ (variant \in {"Obj", "AV"} /\ ~isPlayingRef /\ isPlayingRef')
        => EnvelopeOf(anim') = EnvelopeOf(AnimInit)
      ]_vars

\* Playback restarted with envelope values of the earlier playback in place.
C9_RestartWithStaleEnvelope ==
    /\ variant \in {"Obj", "AV"}
    /\ isPlayingRef
    /\ debugInfo = "Playing..."
    /\ frame.branch = "audio"
    /\ audio.currentTime = 0
    /\ EnvelopeOf(anim) # EnvelopeOf(AnimInit)

\* C10: a frame that runs with playback not active leaves every
\* per-path-point array at the idle default (all zero), and when the frame
\* before it was idle as well the arrays are exactly what that frame left;
\* in all three components.
C10_IdleFramesDoNotDrift ==
    [][ (IsFrame /\ frame'.branch = "idle")
        => /\ AllZero'
           /\ (frame.branch = "idle"
                 => UNCHANGED <<radiusArray, shakeArray, rotationArray, panArray>>)
      ]_vars

\* Two idle frames in a row after playback had run.
C10_TwoIdleFrames ==
    /\ frame.branch = "idle"
    /\ frame.prevBranch = "idle"
    /\ hist.playsResolved
    /\ AllZero

\* Arrays whose every entry is a value no frame computes.
StaleArrays ==
    [radius |-> [i \in Points |-> 0 - 777], shake |-> [i \in Points |-> <<777, 777, 777>>],
     rotation |-> [i \in Points |-> 777], pan |-> [i \in Points |-> 777]]

IsObjAudioFrame == IsFrame /\ variant = "Obj" /\ frame'.branch = "audio"

\* C11: on every audio-processing frame of the head variant, every index of
\* the radius, shake, rotation and pan arrays is written during that frame
\* before the render call: the arrays handed to the renderer are the ones the
\* frame computes from its own inputs whatever the arrays held before, so no
\* entry carries a value from an earlier frame.
C11_ArraysRewrittenEveryAudioFrame ==
    [][IsObjAudioFrame =>
         /\ frame'.rendered
         /\ [radius |-> radiusArray', shake |-> shakeArray',
             rotation |-> rotationArray', pan |-> panArray']
              = ObjArrays(StaleArrays, anim, anim'.time, frame'.isBassHit,
                          frame'.input[1], frame'.input[2], frame'.input[3])]_vars

\* An audio frame follows an audio frame that left non-zero pan and shake
\* entries, and this frame leaves some pan entry at zero.
C11_AudioFrameAfterNonZeroArrays ==
    /\ variant = "Obj" /\ frame.branch = "audio" /\ frame.prevBranch = "audio"
    /\ \E i \in Points : panArray[i] = 0
    /\ \E i \in Points : panArray[i] # 0
    /\ \E i \in Points : rotationArray[i] # 0

Returned(fn) == frame.branch = "return" /\ frame.fn = fn

\* Some segment k < cap has 0 < timeInPath < avgDuration.
SegmentInFlight(time, avgDuration) ==
    \E k \in 0 .. (Cap - 1) :
        time * 1000 - k * PrefabDelayUs > 0
        /\ time * 1000 - k * PrefabDelayUs < avgDuration * 1000

\* C12: for every clock time >= 0 the visible-progress window has
\* minVisible < maxVisible, and when no segment has
\* 0 < timeInPath < avgDuration it is the default window, [0, 0.5] in the
\* five-band head variant and [0, 0.3] in the three-band AudioVisualizer2.
C12_WindowNonEmptyAndDefaultWhenNothingInFlight ==
    Returned("visibleWindow") =>
        /\ frame.out.min < frame.out.max
        /\ frame.out.min >= 0 /\ frame.out.max <= PPM
        /\ ~SegmentInFlight(frame.time, AvgDuration(frame.sn))
             => frame.out = [min |-> 0, max |-> IF frame.v = "AV2" THEN 300000 ELSE 500000]

\* The window was computed at a time after the last segment left the path.
C12_WindowAfterLastSegment ==
    /\ Returned("visibleWindow") /\ frame.v = "AV2" /\ frame.time > 0
    /\ ~SegmentInFlight(frame.time, AvgDuration(frame.sn))

\* C13: after every frame every entry of the per-path-point pan array lies in
\* [-1, 1] (thousandths: [-1000, 1000]).
C13_PanWithinUnitInterval ==
    \A i \in Points : panArray[i] >= 0 - One /\ panArray[i] <= One

\* The pass loop wrote a pan entry for a segment of the high section while
\* the right channel alone carried a full-scale high band.
C13_PanAboveOne ==
    /\ Returned("arrays") /\ frame.shape.l[5] = 0 /\ frame.shape.r[5] = 255
    /\ \E i \in Points : panArray[i] > One

\* C14: every band average computed from a byte spectrum is >= 0 before
\* noise, an all-zero spectrum gives exactly 0 for every band, and an empty
\* band divides by the floor 1 instead of 0, which makes its average 0.
C14_BandAverageNonNegativeAndTotal ==
    Returned("bandAvg") =>
        /\ frame.out >= 0
        /\ (\A i \in Bins : frame.data[i] = 0) => frame.out = 0
        /\ frame.hi <= frame.lo => frame.out = 0

\* The average of an empty band of a full-scale spectrum was computed.
C14_EmptyBandAveraged ==
    /\ Returned("bandAvg") /\ frame.hi = frame.lo
    /\ \A i \in Bins : frame.data[i] = 255

\* C15 as stated: for any four control values the Catmull-Rom evaluation
\* returns exactly p1 at t = 0 and exactly p2 at t = 1, and the spline at
\* progress 0 and 1 reproduces control point 0 and control point N-1.
C15_ExactAtBothKnots ==
    /\ Returned("catmullRom") =>
          /\ frame.t = 0 => frame.out = frame.p[2]
          /\ frame.t = FOne => frame.out = frame.p[3]
    /\ Returned("catmullRomVec3") =>
          /\ frame.t = 0 => frame.out = Vec3Of(frame.p[2])
          /\ frame.t = FOne => frame.out = Vec3Of(frame.p[3])
    /\ Returned("spline") =>
          /\ frame.t = 0 => frame.out = frame.p[1]
          /\ frame.t = FOne => frame.out = frame.p[4]

MaxAbs(p) == Max(Max(Abs(p[1]), Abs(p[2])), Max(Abs(p[3]), Abs(p[4])))

\* C15 (amended): the Catmull-Rom evaluation returns exactly p1 at t = 0; at
\* t = 1 it returns p2 up to the rounding of its operations (a few units in
\* the last place of the largest control value); the spline at progress 0 and
\* 1 reproduces control point 0 and control point N-1 exactly, both being
\* evaluated at weight 0.
C15_ExactAtWeightZeroRoundedAtOne ==
    /\ Returned("catmullRom") =>
          /\ frame.t = 0 => frame.out = frame.p[2]
          /\ frame.t = FOne =>
                Abs(frame.out - frame.p[3]) * Pow2(SignificandBits)
                    <= 16 * MaxAbs(frame.p)
    /\ Returned("catmullRomVec3") =>
          /\ frame.t = 0 => frame.out = Vec3Of(frame.p[2])
          /\ frame.t = FOne =>
                \A k \in 1 .. 3 :
                    Abs(frame.out[k] - Vec3Of(frame.p[3])[k]) * Pow2(SignificandBits)
                        <= 16 * 2 * MaxAbs(frame.p)
    /\ Returned("spline") =>
          /\ frame.t = 0 => frame.out = frame.p[1]
          /\ frame.t = FOne => frame.out = frame.p[4]

\* The spline was evaluated at progress 1 through four different control
\* values.
C15_SplineAtProgressOne ==
    /\ Returned("spline") /\ frame.t = FOne /\ frame.out = frame.p[4]
    /\ \A i, j \in 1 .. 4 : i # j => frame.p[i] # frame.p[j]

\* The hit decision of an audio frame that starts with animation state a,
\* reads the snapshot shape and draws the noise phase sn.
HitDecision(v, a, shape, sn, dateNow) ==
    IF v = "Obj" THEN ObjIsBassHit(ObjBands(shape).subBass, a, dateNow)
    ELSE IF v = "AV"
    THEN SimpleBassHit(AVNoisy([AVBands(shape) EXCEPT
                                  !.subBass = Envelope(a.smoothedSubBassAvg,
                                                       a.previousSubBassAvg,
                                                       AVBands(shape).subBass, 2000)],
                               sn).subBass,
                       a.previousBassAvg)
    ELSE SimpleBassHit(AV2Bands(AV2ByteData(shape), sn).bass, a.previousBassAvg)

\* C16: the hit decision of a frame depends only on the noise-free band
\* values: from the same state and the same spectrum every noise phase gives
\* the decision the frame took, so runs that differ only in their noise
\* report hits on the same frames.
C16_HitDecisionIgnoresNoise ==
    [][IsFrame /\ frame'.branch = "audio" =>
         \A d \in Draws :
             HitDecision(variant, anim, frame'.input[1], d.sn, frame'.dateNow)
                 = frame'.isBassHit]_vars

\* An AudioVisualizer2 frame reported a hit although the same state and
\* spectrum give no hit with another noise phase.
C16_HitDecidedByNoise ==
    /\ variant = "AV2" /\ frame.branch = "audio" /\ frame.isBassHit
    /\ frame.input[3] = One
    /\ ~SimpleBassHit(AV2Bands(AV2ByteData(frame.input[1]), 0 - One).bass, 0)

\* The tracer fields of animState after a launch in a frame at anim.time
\* with the target strength the frame computed: 80% of the target, faded
\* once by the same frame's fade step.
LaunchedThisFrame(a) ==
    /\ a.chromaticTracerActive
    /\ a.chromaticTracerStartTime = a.time
    /\ a.chromaticTracer = Mul(Mul(a.chromaticTargetStrength, 800), 920)

\* C17 as stated: on every frame on which a bass hit is detected a chromatic
\* tracer is launched in that frame, its value set from 80% of the frame's
\* target strength and its start time set to the current time.
C17_TracerLaunchedOnEveryHit ==
    [][IsObjAudioFrame /\ frame'.isBassHit => LaunchedThisFrame(anim')]_vars

\* C17 (amended): a frame that detects a hit while no tracer is active
\* launches one (80% of the frame's target strength, start time the current
\* time); a hit while a tracer is active launches nothing: the start time
\* stays and the running tracer fades by 0.92, or ends at 500 ms of age.
C17_TracerLaunchedOnHitUnlessActive ==
    [][IsObjAudioFrame /\ frame'.isBassHit =>
         IF ~anim.chromaticTracerActive
         THEN LaunchedThisFrame(anim')
         ELSE /\ anim'.chromaticTracerStartTime = anim.chromaticTracerStartTime
              /\ anim'.chromaticTracer =
                     IF anim'.time - anim.chromaticTracerStartTime >= 500 THEN 0
                     ELSE Mul(anim.chromaticTracer, 920)]_vars

\* A hit frame has launched a tracer.
C17_TracerLaunched ==
    /\ variant = "Obj" /\ frame.branch = "audio" /\ frame.isBassHit
    /\ LaunchedThisFrame(anim) /\ anim.chromaticTracer > 0

\* C18: whenever a frame of the head variant detects a bass hit, the
\* last-hit timestamp is set to the current time in that frame, and on every
\* frame within 500 ms after a detected hit the random kick
\* (Math.random() - 0.5) * 3 is added to the camera auto-rotate speed.
C18_HitStampedAndKickFollows ==
    [][IsObjAudioFrame =>
         /\ frame'.isBassHit => anim'.bassHitTime = frame'.dateNow
         /\ (hist'.lastHitDate >= 0 /\ frame'.dateNow - hist'.lastHitDate < 500)
              => controls'.autoRotateSpeed
                   = 2000 + frame'.subBass * ObjConfig.rotationSpeedMax
                       + Mul(frame'.input[3], 500) + (frame'.input[2] - 500) * 3]_vars

\* An audio frame ran 40 ms after a hit frame with the hit timestamp still
\* at its initial 0.
C18_FrameAfterHitWithoutStamp ==
    /\ variant = "Obj" /\ frame.branch = "audio" /\ ~frame.isBassHit
    /\ hist.lastHitDate >= 0 /\ frame.dateNow - hist.lastHitDate = FrameMs
    /\ anim.bassHitTime = 0
    /\ controls.autoRotateSpeed
         = 2000 + frame.subBass * ObjConfig.rotationSpeedMax + Mul(frame.input[3], 500)

\* C19: while playback is not active the chromatic strength written to the
\* post-process uniform decays exponentially: the value an idle frame of the
\* head variant writes is at most 0.95 times the value the previous frame
\* wrote.
C19_IdleUniformDecays ==
    [][IsFrame /\ variant = "Obj" /\ frame'.branch = "idle" =>
         chroma'.uChromaticStrength * One <= 950 * chroma.uChromaticStrength]_vars

\* Playback stopped while a tracer was running: the idle frame wrote the
\* decayed strength plus the tracer, which no idle frame changes.
C19_IdleFrameWithFrozenTracer ==
    /\ variant = "Obj" /\ frame.branch = "idle" /\ frame.prevBranch = "audio"
    /\ anim.chromaticTracerActive /\ anim.chromaticTracer > 0
    /\ chroma.uChromaticStrength = anim.chromaticStrength + anim.chromaticTracer

\* C20 as stated: for any interleaving of overlapping handlePlay invocations
\* (a second one is in flight, which starts only while the first is) at most
\* one AudioAnalyzer is created and createMediaElementSource is called at
\* most once.
C20_OneAnalyzerOneSourceCall ==
    (\E c \in PlayCalls : c > 1 /\ pc[c] # "idle")
        => hist.created <= 1 /\ hist.srcCalls <= 1

\* C20 (amended): at most one AudioAnalyzer is created, and
\* createMediaElementSource is never called once a call has returned the
\* source: only a call that threw can be followed by another call, made by
\* an overlapping or a later invocation.
C20_OneAnalyzerNoCallAfterSource ==
    [][/\ hist'.created <= 1
       /\ analyzer.source => analyzer'.source /\ hist'.srcCalls = hist.srcCalls]_vars

\* Two invocations are in flight at once on the one analyzer, whose source
\* the first of them to resume has created.
C20_TwoInvocationsOneSource ==
    /\ \A c \in {1, 2} : pc[c] \in {"initResume", "resume", "play"}
    /\ analyzer.source /\ hist.srcCalls = 1 /\ hist.created = 1

\* C21 as stated: whenever the audio element is paused or has ended and no
\* handlePlay call is in progress, the play button is visible; no reachable
\* state has playback stopped while the button stays hidden.
C21_StoppedImpliesButtonVisible ==
    ((audio.paused \/ audio.ended) /\ \A c \in DOMAIN pc : pc[c] = "idle")
        => showPlayButton

\* The element was paused by the platform after a successful play: nothing
\* is in progress, the component still believes it is playing and the button
\* is hidden.
C21_PausedWithButtonHidden ==
    /\ audio.paused /\ ~audio.ended
    /\ \A c \in DOMAIN pc : pc[c] = "idle"
    /\ isPlaying /\ isPlayingRef /\ ~showPlayButton
    /\ hist.playsResolved

\* C22 as stated: in every variant, after a handlePlay call has succeeded
\* (play() resolved and the playing flag set), each following frame on which
\* the audio element is not paused takes the audio-processing branch.
C22_PlayingFrameTakesAudioBranch ==
    [][(IsFrame /\ sceneRef /\ hist.playsResolved /\ isPlaying /\ ~audio'.paused)
          => frame'.branch = "audio"]_vars

\* A frame of part_001 ran while the element was playing after a successful
\* handlePlay and took the branch for "not playing".
C22_IdleFrameWhilePlaying ==
    /\ variant = "Part1" /\ hist.playsResolved /\ isPlaying
    /\ analyzer.exists /\ ~audio.paused /\ audio.currentTime > 0
    /\ frame.branch = "idle" /\ \A i \in Points : radiusArray[i] = 128 * One

\* The path points some segment of the sub-bass section writes in the pass
\* loop of a frame at playback time `time`; the others lie outside the section.
SubBassPoints(time, sn) ==
    LET avgDuration == AvgDuration(sn)
        th == ObjThresholds(VisibleWindow(time, avgDuration, PPM \div 2))
        tipOf(k) == TimeInPath(time, IF k \div PathLength < 2 THEN k % PathLength
                                     ELSE (k % PathLength) + Cap)
        progressOf(k) == ProgressAlongPath(tipOf(k), avgDuration)
    IN { (progressOf(k) * (PathLength - 1)) \div PPM :
            k \in { q \in 0 .. (4 * PathLength - 1) :
                      SectionOf(progressOf(q), tipOf(q), th) = 1 } } \cap Points

\* C23 as stated: on every audio-processing frame, path points outside the
\* sub-bass section receive only a pan value: their shake vector and their
\* rotation scalar are zero after the frame.
C23_OutsideSubBassShakeAndRotationZero ==
    Returned("arrays") =>
        \A i \in Points \ SubBassPoints(frame.time, frame.sn) :
            shakeArray[i] = <<0, 0, 0>> /\ rotationArray[i] = 0

\* C23: on every audio-processing frame, path points outside the sub-bass
\* section receive no shake (their shake vector is zero after the frame); the
\* rotation scalar is not tied to the section: it is written for every path
\* point alike, so it is non-zero at all points or at none.
C23_OutsideSubBassNoShakeRotationEverywhere ==
    Returned("arrays") =>
        /\ \A i \in Points \ SubBassPoints(frame.time, frame.sn) :
               shakeArray[i] = <<0, 0, 0>>
        /\ (\E i \in Points : rotationArray[i] # 0)
               => \A i \in Points : rotationArray[i] # 0

\* The arrays of a frame in which a point inside the section shook and a
\* point outside it was panned and turned without shaking.
C23_TurnedOutsideSubBass ==
    /\ Returned("arrays")
    /\ \E i \in SubBassPoints(frame.time, frame.sn) : shakeArray[i] # <<0, 0, 0>>
    /\ \E i \in Points \ SubBassPoints(frame.time, frame.sn) :
           shakeArray[i] = <<0, 0, 0>> /\ rotationArray[i] # 0 /\ panArray[i] # 0

\* C24: no shooting star is spawned on a frame whose computed head-formation
\* progress is below the formation threshold 0.9; in particular no star
\* becomes active while the playback clock is below 0.9 times the minimum
\* particle duration.
C24_NoSpawnBeforeHeadFormed ==
    Returned("spawn") =>
        /\ (\E s \in Slots : shootingStars[s].active)
              => anim.headFormationProgress >= 900
        /\ frame.time * 10 < 9 * MinDurationMs
              => \A s \in Slots : ~shootingStars[s].active

\* A loud frame, free to spawn by its energy and its interval, one millisecond
\* before the fastest particle is 0.9 of its way: no star was spawned.
C24_LoudFrameBeforeFormation ==
    /\ Returned("spawn") /\ frame.time = 35 /\ frame.rnd = 0
    /\ frame.nb.high >= 600 /\ frame.nb.highMid >= 600
    /\ anim.headFormationProgress = 875
    /\ \A s \in Slots : ~shootingStars[s].active

C26_StarsExpire ==
    /\ [](\A s \in Slots :
            /\ shootingStars[s].active => shootingStars[s].age < shootingStars[s].lifetime
            /\ shootingStars[s].visible => shootingStars[s].active)
    /\ \A s \in Slots : shootingStars[s].active ~> ~shootingStars[s].active

\* A star expired by age in the update of an audio frame: the element still
\* plays, the star is inactive and hidden, its age has passed its lifetime.
C26_StarExpiredByAge ==
    /\ frame.branch = "audio" /\ ~audio.paused
    /\ \E s \in Slots : /\ ~shootingStars[s].active /\ ~shootingStars[s].visible
                        /\ shootingStars[s].lifetime > 0
                        /\ shootingStars[s].age >= shootingStars[s].lifetime

\* C27: the chromatic mode selected on a frame is determined solely by that
\* frame's hit flag, sub-bass value and overall energy through the cascade
\* hit -> GLITCH, subBass > 0.9 -> GLITCH, subBass > 0.5 -> INTENSE,
\* overallEnergy > 0.6 -> NORMAL, otherwise SUBTLE; it does not depend on the
\* mode or any other state of earlier frames.
C27_ModeIsCascadeOfFrameInputs ==
    [][IsObjAudioFrame =>
         LET b == ObjBands(frame'.input[1])
             overallEnergy == (b.subBass * 300 + b.lowBass * 200 + b.lowMid * 200
                                 + b.highMid * 150 + b.high * 150) \div One
         IN anim'.chromaticMode =
                CASE frame'.isBassHit -> "GLITCH"
                  [] ~frame'.isBassHit /\ b.subBass > 900 -> "GLITCH"
                  [] ~frame'.isBassHit /\ b.subBass <= 900 /\ b.subBass > 500 -> "INTENSE"
                  [] ~frame'.isBassHit /\ b.subBass <= 500 /\ overallEnergy > 600 -> "NORMAL"
                  [] OTHER -> "SUBTLE"]_vars

\* The frame after a hit frame (mode GLITCH) selected NORMAL: no hit, sub-bass
\* below 0.5, overall energy above 0.6.
C27_NormalAfterGlitch ==
    /\ variant = "Obj" /\ frame.branch = "audio" /\ frame.prevBranch = "audio"
    /\ hist.lastHitDate >= 0 /\ ~frame.isBassHit
    /\ anim.chromaticMode = "NORMAL" /\ anim.overallEnergy > 600

\* The mode a frame selects for band levels lv and previous sub-bass average
\* prev, with its hit flag.
SelectedMode(lv, prev) ==
    LET b == ObjBands([d |-> lv, l |-> lv, r |-> lv])
        hit == ObjIsBassHit(b.subBass, [AnimInit EXCEPT !.previousBassAvg = prev],
                            DateNow(FrameMs))
    IN [mode |-> ChromaticModeOf(hit, b.subBass, OverallEnergy(b)), hit |-> hit]

\* C30 as stated: with the shipped head-variant configuration every chromatic
\* mode is selectable: for each of SUBTLE, NORMAL, INTENSE and GLITCH there is
\* an input spectrum for which some frame selects that mode, and INTENSE and
\* GLITCH can be selected on a frame without a hit.
C30_EveryModeSelectable ==
    Returned("mode") =>
        LET selected == { SelectedMode(lv, prev) :
                             lv \in [1 .. 5 -> ModeLevels],
                             prev \in {0, ObjConfig.subBassIntensity} }
        IN /\ \A m \in DOMAIN ChromaticModes : \E x \in selected : x.mode = m
           /\ \E x \in selected : x.mode = "INTENSE" /\ ~x.hit
           /\ \E x \in selected : x.mode = "GLITCH" /\ ~x.hit

\* A frame whose sub-bass band is at full scale and that is no hit selected
\* NORMAL: the largest sub-bass average, 0.4, is below both sub-bass steps.
C30_FullScaleSubBassSelectsNormal ==
    /\ Returned("mode") /\ \A k \in 1 .. 5 : frame.shape.d[k] = 255
    /\ ~frame.isBassHit /\ anim.previousBassAvg = ObjConfig.subBassIntensity
    /\ anim.chromaticMode = "NORMAL"

\* Faces of the mesh that own at least one head target.
SampledFaces == {frame.headPoints[i].face : i \in 1 .. Len(frame.headPoints)}

\* C28: for a mesh of F faces, 1 <= F <= particleCount, the head-target
\* sampling yields exactly particleCount targets and every face owns at least
\* one of them.
C28_ExactCountAndEveryFaceSampled ==
    Returned("sample") =>
        /\ Len(frame.headPoints) = particleCount
        /\ SampledFaces = 1 .. frame.totalFaces

\* A mesh of particleCount - 1 faces has been sampled: the table is full
\* before the last face is visited, which owns no target.
C28_LastFaceUnsampled ==
    /\ Returned("sample")
    /\ frame.totalFaces = particleCount - 1
    /\ Len(frame.headPoints) = particleCount
    /\ frame.totalFaces \notin SampledFaces

\* C29: once CameraController.dispose() has returned, every listener the
\* constructor registered is gone and no wheel or mouse event on the element
\* changes targetDistance, rotationY or isDragging.
C29_DisposedControllerIgnoresEvents ==
    [][hist'.disposed =>
          /\ controls'.listeners = {}
          /\ hist.disposed =>
                 /\ controls'.targetDistance = controls.targetDistance
                 /\ controls'.rotationY = controls.rotationY
                 /\ controls'.isDragging = controls.isDragging]_vars

\* After dispose() all five listeners are still registered and a wheel event
\* has moved targetDistance away from its constructed value.
C29_WheelAfterDisposeMovesTarget ==
    /\ hist.disposed
    /\ hist.changedAfterDispose
    /\ Cardinality(controls.listeners) = 5
    /\ controls.targetDistance # ObjControlsWithListeners.targetDistance
    /\ controls.rotationY = 0
    /\ ~controls.isDragging

====
